---------------------------- MODULE Spec2Model ----------------------------
(***************************************************************************)
(* Model of the analytics pipeline of the Meta Ads daily report system:    *)
(* aggregation of raw insight rows, period comparison, multi-period trend, *)
(* benchmark evaluation and scoring, anomaly detection and the insight     *)
(* list of the report generator.                                           *)
(*                                                                         *)
(* Numbers.  The program computes with Python floats.  The model keeps a   *)
(* number as an exact fraction [n |-> numerator, d |-> denominator] with   *)
(* d > 0 in lowest terms, so that a comparison against a threshold and a   *)
(* division are decided exactly; round(x, k) is round-half-to-even on the  *)
(* exact value and yields an integer count of 10^-k units.                 *)
(***************************************************************************)
EXTENDS Integers, Sequences, FiniteSets, TLC

\* pc, op, args, ret: the position, name, arguments and result of the call in
\* progress.  cache_file: the cache file under the key of the current date.
\* multi_period_data, aggregated_data, analysis: the locals of one run of
\* ReportGenerator.generate_daily_report.
\* class_benchmarks: the class attribute BenchmarkManager.BENCHMARKS.
\* managers: the benchmarks table of every BenchmarkManager constructed.
\* calls: the collaborator operations (cache read, insight request, cache
\* write, report file write, notification push) the current run has issued.
\* cache_dir, self_expire_seconds: the files and the lifetime of a DataCache used
\* on its own.
\* scheduler: the state of DailyReportScheduler.start and the outcome its
\* last run logged.
VARIABLES pc, op, args, ret, cache_file, multi_period_data, aggregated_data, analysis,
          class_benchmarks, managers, calls, cache_dir, self_expire_seconds,
          scheduler

vars == <<pc, op, args, ret, cache_file, multi_period_data, aggregated_data,
          analysis, class_benchmarks, managers, calls, cache_dir, self_expire_seconds,
          scheduler>>

generator == <<cache_file, multi_period_data, aggregated_data, analysis, calls>>

store == <<cache_dir, self_expire_seconds>>

\* the state that outlives a call
tables == <<class_benchmarks, managers, store, scheduler>>

None == [none |-> TRUE]

(***************************************************************************)
(* Exact fractions                                                         *)
(***************************************************************************)
Abs(x) == IF x < 0 THEN -x ELSE x

RECURSIVE Gcd(_, _)
Gcd(a, b) == IF b = 0 THEN a ELSE Gcd(b, a % b)

\* the fraction n/d (d # 0) in lowest terms with a positive denominator
R(n, d) ==
    LET g == Gcd(Abs(n), Abs(d))
        s == IF d < 0 THEN -1 ELSE 1
    IN  [n |-> (s * n) \div g, d |-> (s * d) \div g]

Zero == [n |-> 0, d |-> 1]
FromInt(i) == [n |-> i, d |-> 1]

RAdd(a, b) == R(a.n * b.d + b.n * a.d, a.d * b.d)
RSub(a, b) == R(a.n * b.d - b.n * a.d, a.d * b.d)
RMul(a, b) == R(a.n * b.n, a.d * b.d)
\* a / b for b # 0
RDiv(a, b) == R(a.n * b.d, a.d * b.n)
RLt(a, b) == a.n * b.d < b.n * a.d
RLe(a, b) == a.n * b.d <= b.n * a.d
RGt(a, b) == RLt(b, a)
RGe(a, b) == RLe(b, a)
REq(a, b) == a.n * b.d = b.n * a.d

\* n/d (d > 0) rounded to the nearest integer, ties to the even neighbour
RoundHalfEven(n, d) ==
    LET q == n \div d
        r == n - q * d
    IN  IF 2 * r < d THEN q
        ELSE IF 2 * r > d THEN q + 1
        ELSE IF q % 2 = 0 THEN q ELSE q + 1

\* round(x, 2) as a count of hundredths; round(x, 1) as a count of tenths
Round2(x) == RoundHalfEven(100 * x.n, x.d)
Round1(x) == RoundHalfEven(10 * x.n, x.d)

(***************************************************************************)
(* Dictionaries.  A dict is a function from its keys; d.get(k, 0) reads 0  *)
(* for an absent key.                                                      *)
(***************************************************************************)
RECURSIVE SeqsUpTo(_, _)
\* the sequences over S of length at most n
SeqsUpTo(S, n) ==
    IF n = 0 THEN {<<>>}
    ELSE LET shorter == SeqsUpTo(S, n - 1)
         IN  shorter \cup {Append(s, x) : s \in {t \in shorter : Len(t) = n - 1}, x \in S}

EmptyDict == <<>>

Get(d, k) == IF k \in DOMAIN d THEN d[k] ELSE Zero

\* d.get(k, {}) and d.get(k) with its default
GetDict(d, k) == IF k \in DOMAIN d THEN d[k] ELSE EmptyDict
GetOr(d, k, default) == IF k \in DOMAIN d THEN d[k] ELSE default

(***************************************************************************)
(* MetaAdsClient.aggregate_metrics                                         *)
(* A raw row carries date_start and the five totals as naturals.  The      *)
(* result is [raises, value]: raises names the exception that leaves the   *)
(* method ("none" when it returns), value is the returned dict.            *)
(***************************************************************************)
\* A field of a raw row as the response carries it: absent from the row, or
\* a JSON null, number or string.  A string holds the digits of a natural
\* ("integer"), those digits followed by ".0" ("decimal"), nothing ("empty")
\* or something that is no number ("other").
JsonNull == [kind |-> "null", form |-> "", v |-> 0]
JsonNumber(n) == [kind |-> "number", form |-> "", v |-> n]
JsonText(form, n) == [kind |-> "text", form |-> form, v |-> n]

NumericFields == {"impressions", "clicks", "spend", "conversions", "conversion_values"}
IntFields == {"impressions", "clicks", "conversions"}

\* item.get(f, 0) or 0: the default for an absent field and for a falsy one
GetOrZero(item, f) ==
    LET x == IF f \in DOMAIN item THEN item[f] ELSE JsonNumber(0)
    IN  IF \/ x.kind = "null"
           \/ (x.kind = "number" /\ x.v = 0)
           \/ (x.kind = "text" /\ x.form = "empty")
        THEN JsonNumber(0)
        ELSE x

\* int(x) raises ValueError on a string that is not an integer literal,
\* float(x) on a string that is not a number
IntRaises(x) == x.kind = "text" /\ x.form # "integer"
FloatRaises(x) == x.kind = "text" /\ x.form \notin {"integer", "decimal"}

FieldRaises(item, f) ==
    IF f \in IntFields THEN IntRaises(GetOrZero(item, f))
    ELSE FloatRaises(GetOrZero(item, f))

\* the number added to the total of f, when the conversion does not raise
FieldValue(item, f) == GetOrZero(item, f).v

ItemRaises(item) == \E f \in NumericFields : FieldRaises(item, f)

\* a row all of whose numeric fields are JSON numbers
JsonRow(r) ==
    [f \in DOMAIN r |-> IF f \in NumericFields THEN JsonNumber(r[f]) ELSE r[f]]

JsonRows(rows) == [i \in DOMAIN rows |-> JsonRow(rows[i])]

RECURSIVE SumField(_, _)
SumField(data, f) ==
    IF data = <<>> THEN 0 ELSE FieldValue(Head(data), f) + SumField(Tail(data), f)

DistinctDays(data) == Cardinality({data[i].date_start : i \in DOMAIN data})

\* conversion_rate is computed in the branch guarded by conversions > 0 only
ConversionRateFaults(clicks, conversions) == conversions > 0 /\ clicks = 0

ConversionRateAsFraction(conversions, clicks) == R(conversions, clicks)

\* conversions / clicks * 100, reached with conversions > 0 and clicks > 0
ConversionRate(conversions, clicks) == R(conversions * 100, clicks)

aggregate_metrics(data) ==
    IF data = <<>> THEN [raises |-> "none", value |-> EmptyDict]
    ELSE IF \E i \in DOMAIN data : ItemRaises(data[i])
    THEN [raises |-> "ValueError", value |-> EmptyDict]
    ELSE
    LET impressions == SumField(data, "impressions")
        clicks == SumField(data, "clicks")
        spend == SumField(data, "spend")
        conversions == SumField(data, "conversions")
        conversion_values == SumField(data, "conversion_values")
        days == DistinctDays(data)
    IN  IF ConversionRateFaults(clicks, conversions)
        THEN [raises |-> "ZeroDivisionError", value |-> EmptyDict]
        ELSE [raises |-> "none", value |->
          [impressions |-> FromInt(impressions),
           clicks |-> FromInt(clicks),
           spend |-> FromInt(spend),
           conversions |-> FromInt(conversions),
           conversion_values |-> FromInt(conversion_values),
           days |-> FromInt(days),
           ctr |-> IF impressions > 0 THEN R(clicks * 100, impressions) ELSE Zero,
           cpc |-> IF clicks > 0 THEN R(spend, clicks) ELSE Zero,
           cpa |-> IF conversions > 0 THEN R(spend, conversions) ELSE Zero,
           conversion_rate |-> IF conversions > 0
                               THEN ConversionRate(conversions, clicks) ELSE Zero,
           roas |-> IF spend > 0 THEN R(conversion_values, spend) ELSE Zero,
           frequency |-> IF impressions > 0 /\ days > 0
                         THEN R(impressions, days) ELSE Zero]]

(***************************************************************************)
(* AnomalyDetector                                                         *)
(* thresholds is the dict built by __init__ from the settings.  An Anomaly *)
(* is [metric, value, threshold, campaign, severity, suggestion]; the      *)
(* creation timestamp is not modelled.  A threshold is a number or a text  *)
(* that embeds one; a suggestion is a text id with the amount formatted    *)
(* into it (hundredths, 0 for a fixed text).  The metric name of the       *)
(* no-conversion rule is written "Conversions" here.                       *)
(***************************************************************************)
DefaultThresholds ==
    [roas_min |-> R(20, 10), cpc_max |-> R(20, 10),
     no_conversion_spend |-> R(1000, 10), frequency_max |-> R(40, 10)]

Anomaly(metric, value, threshold, campaign, severity, suggestion) ==
    [metric |-> metric, value |-> value, threshold |-> threshold,
     campaign |-> campaign, severity |-> severity, suggestion |-> suggestion]

Number(x) == [kind |-> "number", v |-> x]
Text(x) == [kind |-> "text", v |-> x]
Suggestion(id, name, amount) == [id |-> id, name |-> name, amount |-> amount]

RoasAtOrBelowMin(roas, thresholds) == RLe(roas, thresholds.roas_min)

\* roas < roas_min
RoasBelowMin(roas, thresholds) == RLt(roas, thresholds.roas_min)

\* cpc > cpc_max
CpcAboveMax(cpc, thresholds) == RGt(cpc, thresholds.cpc_max)

\* conversions == 0 and spend > no_conversion_spend
NoConversionSpend(conversions, spend, thresholds) ==
    REq(conversions, Zero) /\ RGt(spend, thresholds.no_conversion_spend)

\* frequency > frequency_max
FrequencyAboveMax(frequency, thresholds) == RGt(frequency, thresholds.frequency_max)

detect_account_anomalies(data, thresholds) ==
    LET roas == Get(data, "roas")
        cpc == Get(data, "cpc")
        spend == Get(data, "spend")
        conversions == Get(data, "conversions")
        frequency == Get(data, "frequency")
    IN  (IF RoasBelowMin(roas, thresholds)
         THEN <<Anomaly("ROAS", roas, Number(thresholds.roas_min), "Account",
                        "critical", Suggestion("roas_below_threshold", "", 0))>>
         ELSE <<>>)
        \o
        (IF CpcAboveMax(cpc, thresholds)
         THEN <<Anomaly("CPC", cpc, Number(thresholds.cpc_max), "Account",
                        "warning", Suggestion("cpc_near_threshold", "", 0))>>
         ELSE <<>>)
        \o
        (IF NoConversionSpend(conversions, spend, thresholds)
         THEN <<Anomaly("Conversions", Zero, Text(thresholds.no_conversion_spend),
                        "Account", "critical",
                        Suggestion("spent_without_conversion", "", Round2(spend)))>>
         ELSE <<>>)
        \o
        (IF FrequencyAboveMax(frequency, thresholds)
         THEN <<Anomaly("Frequency", frequency, Number(thresholds.frequency_max),
                        "Account", "warning", Suggestion("frequency_too_high", "", 0))>>
         ELSE <<>>)

(***************************************************************************)
(* BenchmarkManager                                                        *)
(* The table keeps insertion order: a dict is modelled as a sequence of    *)
(* [key, value] entries with distinct keys where its order is observable.  *)
(***************************************************************************)
Entry(k, v) == [key |-> k, value |-> v]

Keys(dict) == {dict[i].key : i \in DOMAIN dict}

Lookup(dict, k) == dict[CHOOSE i \in DOMAIN dict : dict[i].key = k].value

MetricBenchmark(industry_min, industry_max, excellent, alert_threshold, higher_better) ==
    [industry_min |-> industry_min, industry_max |-> industry_max,
     excellent |-> excellent, alert_threshold |-> alert_threshold,
     higher_better |-> higher_better]

BENCHMARKS ==
    << Entry("ROAS", MetricBenchmark(R(25, 10), R(35, 10), R(40, 10), R(20, 10), TRUE)),
       Entry("CPC", MetricBenchmark(R(50, 100), R(120, 100), R(50, 100), R(200, 100), FALSE)),
       Entry("CTR", MetricBenchmark(R(8, 10), R(15, 10), R(20, 10), R(5, 10), TRUE)),
       Entry("CPA", MetricBenchmark(R(15, 1), R(35, 1), R(15, 1), R(50, 1), FALSE)),
       Entry("Frequency", MetricBenchmark(R(15, 10), R(30, 10), R(25, 10), R(40, 10), FALSE)),
       Entry("ConversionRate", MetricBenchmark(R(20, 10), R(40, 10), R(50, 10), R(10, 10), TRUE)) >>

\* _apply_custom_benchmarks: a custom definition replaces the entry of a
\* metric the table already holds, in place; any other key is ignored
apply_custom_benchmarks(benchmarks, custom) ==
    [i \in DOMAIN benchmarks |->
        IF benchmarks[i].key \in Keys(custom)
        THEN Entry(benchmarks[i].key, Lookup(custom, benchmarks[i].key))
        ELSE benchmarks[i]]

\* BenchmarkManager.__init__
BenchmarkManager(custom_benchmarks) ==
    IF custom_benchmarks # <<>>
    THEN apply_custom_benchmarks(BENCHMARKS, custom_benchmarks)
    ELSE BENCHMARKS

construct_without_copy(class_table, custom_benchmarks) ==
    LET table == IF custom_benchmarks # <<>>
                 THEN apply_custom_benchmarks(class_table, custom_benchmarks)
                 ELSE class_table
    IN  [class |-> table, self |-> table]

\* BenchmarkManager.__init__ on the class attribute: self.benchmarks is a
\* copy of the class table, and the overrides are assigned into the copy.
\* class is the class table the constructor leaves, self the new table.
construct_manager(class_table, custom_benchmarks) ==
    [class |-> class_table,
     self |-> IF custom_benchmarks # <<>>
              THEN apply_custom_benchmarks(class_table, custom_benchmarks)
              ELSE class_table]

StatusHigherBetterStrict(benchmark, value) ==
    IF RGt(value, benchmark.excellent) THEN "excellent"
    ELSE IF RGe(value, benchmark.industry_min) THEN "good"
    ELSE IF RLt(value, benchmark.alert_threshold) THEN "critical"
    ELSE "warning"

StatusHigherBetter(benchmark, value) ==
    IF RGe(value, benchmark.excellent) THEN "excellent"
    ELSE IF RGe(value, benchmark.industry_min) THEN "good"
    ELSE IF RLt(value, benchmark.alert_threshold) THEN "critical"
    ELSE "warning"

StatusLowerBetter(benchmark, value) ==
    IF RLe(value, benchmark.excellent) THEN "excellent"
    ELSE IF RLe(value, benchmark.industry_max) THEN "good"
    ELSE IF RGt(value, benchmark.alert_threshold) THEN "critical"
    ELSE "warning"

\* (value - industry_max) / industry_max * 100, or
\* (industry_min - value) / industry_min * 100; the divisor is not 0 for any
\* definition the model draws
GapPercent(benchmark, value) ==
    IF benchmark.higher_better
    THEN RMul(RDiv(RSub(value, benchmark.industry_max), benchmark.industry_max),
              FromInt(100))
    ELSE RMul(RDiv(RSub(benchmark.industry_min, value), benchmark.industry_min),
              FromInt(100))

\* BenchmarkManager.evaluate on the table benchmarks; gap_percent in tenths
evaluate(benchmarks, metric, value) ==
    IF metric \notin Keys(benchmarks)
    THEN [status |-> "unknown", message |-> "unknown metric"]
    ELSE
    LET benchmark == Lookup(benchmarks, metric)
        status == IF benchmark.higher_better
                  THEN StatusHigherBetter(benchmark, value)
                  ELSE StatusLowerBetter(benchmark, value)
        rating == CASE status \in {"excellent", "good"} -> "ok"
                    [] status = "critical" -> "alert"
                    [] OTHER -> "warn"
    IN  [status |-> status,
         rating |-> rating,
         industry_range |-> <<benchmark.industry_min, benchmark.industry_max>>,
         excellent |-> benchmark.excellent,
         gap_percent |-> Round1(GapPercent(benchmark, value)),
         is_alert |-> status = "critical"]

(***************************************************************************)
(* BenchmarkAnalyzer                                                       *)
(***************************************************************************)
metric_mapping ==
    << Entry("roas", "ROAS"), Entry("cpc", "CPC"), Entry("ctr", "CTR"),
       Entry("cpa", "CPA"), Entry("frequency", "Frequency"),
       Entry("conversion_rate", "ConversionRate") >>

\* analyze_all_metrics: one entry per mapped field, in the mapping's order;
\* value in hundredths
analyze_all_metrics(benchmarks, data) ==
    [i \in DOMAIN metric_mapping |->
        LET value == Get(data, metric_mapping[i].key)
            evaluation == evaluate(benchmarks, metric_mapping[i].value, value)
        IN  Entry(metric_mapping[i].value,
                  [value |-> Round2(value),
                   benchmark_range |-> evaluation.industry_range,
                   excellent |-> evaluation.excellent,
                   status |-> evaluation.status,
                   rating |-> evaluation.rating,
                   gap_percent |-> evaluation.gap_percent,
                   is_alert |-> evaluation.is_alert])]

StatusScoreCriticalZero(status) ==
    CASE status = "excellent" -> 100
      [] status = "good" -> 75
      [] status = "warning" -> 50
      [] status = "critical" -> 0
      [] OTHER -> 50

StatusScore(status) ==
    CASE status = "excellent" -> 100
      [] status = "good" -> 75
      [] status = "warning" -> 50
      [] status = "critical" -> 25
      [] OTHER -> 50

\* result.get('status', '')
StatusOf(result) == IF "status" \in DOMAIN result THEN result.status ELSE ""

RECURSIVE SumScores(_)
SumScores(evaluation) ==
    IF evaluation = <<>> THEN 0
    ELSE StatusScore(StatusOf(Head(evaluation).value)) + SumScores(Tail(evaluation))

\* get_overall_score, in tenths
get_overall_score(evaluation) ==
    IF evaluation = <<>> THEN 0
    ELSE Round1(R(SumScores(evaluation), Len(evaluation)))

\* _get_status_change: status_order and list.index, which raises ValueError
\* for a status outside the list; an empty status takes index 1 instead
status_order == <<"critical", "warning", "good", "excellent">>

InStatusOrder(status) == \E i \in DOMAIN status_order : status_order[i] = status

IndexOf(status) == CHOOSE i \in DOMAIN status_order : status_order[i] = status

\* the index used for a status, counted from 1 (so 2 is Python's index 1);
\* defined when StatusIndexRaises is false
StatusIndex(status) == IF status # "" THEN IndexOf(status) ELSE 2

StatusIndexRaises(status) == status # "" /\ ~InStatusOrder(status)

get_status_change(previous, current) ==
    IF StatusIndexRaises(previous) \/ StatusIndexRaises(current)
    THEN "stable"
    ELSE LET prev_index == StatusIndex(previous)
             curr_index == StatusIndex(current)
         IN  IF curr_index > prev_index THEN "improved"
             ELSE IF curr_index < prev_index THEN "declined"
             ELSE "stable"

\* compare_with_previous: one entry per metric of the current evaluation;
\* previous_evaluation is a dict from metric to result
compare_with_previous(current_evaluation, previous_evaluation) ==
    [i \in DOMAIN current_evaluation |->
        LET metric == current_evaluation[i].key
            current_status == current_evaluation[i].value.status
            previous_status == GetOr(GetDict(previous_evaluation, metric), "status", "")
            status_change == get_status_change(previous_status, current_status)
        IN  Entry(metric,
                  [current_status |-> current_status,
                   previous_status |-> previous_status,
                   change |-> status_change,
                   improved |-> status_change = "improved",
                   declined |-> status_change = "declined"])]

(***************************************************************************)
(* TrendAnalyzer                                                           *)
(***************************************************************************)
CompareMetrics ==
    {"spend", "clicks", "impressions", "conversions", "roas", "cpc", "ctr",
     "cpa", "conversion_rate"}

ChangePercentNewActivity(current, previous) ==
    IF RGt(previous, Zero)
    THEN RMul(RDiv(RSub(current, previous), previous), FromInt(100))
    ELSE FromInt(100)

\* ((current - previous) / previous) * 100 when previous > 0, else 0 or 100
ChangePercent(current, previous) ==
    IF RGt(previous, Zero)
    THEN RMul(RDiv(RSub(current, previous), previous), FromInt(100))
    ELSE IF REq(current, Zero) THEN Zero ELSE FromInt(100)

FlatBoundary == 5

\* _get_trend on the unrounded change
get_trend(change_percent) ==
    IF RGt(change_percent, FromInt(FlatBoundary)) THEN "up"
    ELSE IF RLt(change_percent, FromInt(-FlatBoundary)) THEN "down"
    ELSE "flat"

\* compare_periods; current, previous and change_percent in hundredths
compare_periods(current_data, previous_data) ==
    [metric \in CompareMetrics |->
        LET current == Get(current_data, metric)
            previous == Get(previous_data, metric)
            change_percent == ChangePercent(current, previous)
        IN  [current |-> Round2(current),
             previous |-> Round2(previous),
             change_percent |-> Round2(change_percent),
             trend |-> get_trend(change_percent)]]

\* Keys of the period mapping: an int, or the decimal string of an int (the
\* key a JSON round trip leaves).  sorted() orders ints by value and strings
\* by their characters.
IntKey(n) == [type |-> "int", v |-> n]
StrKey(n) == [type |-> "str", v |-> n]

RECURSIVE Digits(_)
Digits(n) == IF n < 10 THEN <<n>> ELSE Append(Digits(n \div 10), n % 10)

RECURSIVE LexLess(_, _)
LexLess(a, b) ==
    IF a = <<>> THEN b # <<>>
    ELSE IF b = <<>> THEN FALSE
    ELSE IF Head(a) # Head(b) THEN Head(a) < Head(b)
    ELSE LexLess(Tail(a), Tail(b))

KeyLess(a, b) ==
    IF a.type = "int" THEN a.v < b.v ELSE LexLess(Digits(a.v), Digits(b.v))

RECURSIVE Insert(_, _)
Insert(sorted, k) ==
    IF sorted = <<>> THEN <<k>>
    ELSE IF KeyLess(k, Head(sorted)) THEN <<k>> \o sorted
    ELSE <<Head(sorted)>> \o Insert(Tail(sorted), k)

RECURSIVE SortKeys(_)
SortKeys(keys) ==
    IF keys = <<>> THEN <<>>
    ELSE Insert(SortKeys(SubSeq(keys, 1, Len(keys) - 1)), keys[Len(keys)])

KeySeq(dict) == [i \in DOMAIN dict |-> dict[i].key]

InsertionOrder(data_by_period) == KeySeq(data_by_period)

\* sorted(data_by_period.keys())
SortedPeriods(data_by_period) == SortKeys(KeySeq(data_by_period))

\* data_by_period.get(days, {})
GetPeriod(data_by_period, days) ==
    IF days \in Keys(data_by_period) THEN Lookup(data_by_period, days) ELSE EmptyDict

MultiPeriodMetrics == {"roas", "cpc", "ctr", "conversions", "spend"}

\* the direction of a value sequence (hundredths): last against first x 1.1
\* and first x 0.9
TrendOf(values) ==
    IF Len(values) >= 2
    THEN LET first == values[1].value
             last == values[Len(values)].value
         IN  IF last * 10 > first * 11
             THEN [trend |-> "rising", trend_status |-> "positive"]
             ELSE IF last * 10 < first * 9
             THEN [trend |-> "falling", trend_status |-> "negative"]
             ELSE [trend |-> "stable", trend_status |-> "neutral"]
    ELSE [trend |-> "insufficient", trend_status |-> "unknown"]

\* f'{days}' followed by the fixed unit: the decimal digits of the key, the
\* same text for the int 1 and the str '1'
PeriodText(days) == Digits(days.v)

analyze_multi_period(data_by_period) ==
    LET periods == SortedPeriods(data_by_period)
    IN  [periods |-> periods,
         trend_summary |-> EmptyDict,
         metrics_trend |->
            [metric \in MultiPeriodMetrics |->
                LET values == [i \in DOMAIN periods |->
                                 [period |-> PeriodText(periods[i]),
                                  value |-> Round2(Get(GetPeriod(data_by_period,
                                                                 periods[i]), metric))]]
                    t == TrendOf(values)
                IN  [values |-> values, trend |-> t.trend,
                     trend_status |-> t.trend_status]]]

(***************************************************************************)
(* ReportGenerator._generate_insights                                      *)
(* An insight text is [kind, metric, suggestion]: kind names the fixed     *)
(* text and its leading symbol, metric is the name formatted into a        *)
(* benchmark note, suggestion the anomaly suggestion formatted into an     *)
(* anomaly note.  Two texts are equal exactly when the three agree.        *)
(***************************************************************************)
NoSuggestion == Suggestion("", "", 0)

Insight(kind, metric, suggestion) ==
    [kind |-> kind, metric |-> metric, suggestion |-> suggestion]

TrendNotes(trend_analysis) ==
    LET roas_trend == GetDict(GetDict(trend_analysis, "metrics_trend"), "roas")
        trend_status == GetOr(roas_trend, "trend_status", "")
    IN  IF trend_status = "positive"
        THEN <<Insight("roas_rising", "", NoSuggestion)>>
        ELSE IF trend_status = "negative"
        THEN <<Insight("roas_falling", "", NoSuggestion)>>
        ELSE <<>>

\* change_percent is kept in hundredths: > 20 and < 10
EfficiencyNotes(comparison) ==
    LET spend_change == GetOr(GetDict(comparison, "spend"), "change_percent", 0)
        conv_change == GetOr(GetDict(comparison, "conversions"), "change_percent", 0)
    IN  IF spend_change > 2000 /\ conv_change < 1000
        THEN <<Insight("spend_up_conversions_flat", "", NoSuggestion)>>
        ELSE <<>>

RECURSIVE BenchmarkNotes(_)
BenchmarkNotes(benchmark_evaluation) ==
    IF benchmark_evaluation = <<>> THEN <<>>
    ELSE (IF Head(benchmark_evaluation).value.is_alert
          THEN <<Insight("below_benchmark", Head(benchmark_evaluation).key, NoSuggestion)>>
          ELSE <<>>)
         \o BenchmarkNotes(Tail(benchmark_evaluation))

AnomalyNotesAnySeverity(anomalies) ==
    [i \in DOMAIN anomalies |->
        Insight("anomaly_suggestion", "", anomalies[i].suggestion)]

RECURSIVE AnomalyNotes(_)
AnomalyNotes(anomalies) ==
    IF anomalies = <<>> THEN <<>>
    ELSE (IF Head(anomalies).severity = "critical" /\ Head(anomalies).suggestion.id # ""
          THEN <<Insight("anomaly_suggestion", "", Head(anomalies).suggestion)>>
          ELSE <<>>)
         \o AnomalyNotes(Tail(anomalies))

AnomaliesBeforeBenchmarks(comparison, trend_analysis, benchmark_evaluation, anomalies) ==
    TrendNotes(trend_analysis) \o EfficiencyNotes(comparison)
      \o AnomalyNotes(anomalies) \o BenchmarkNotes(benchmark_evaluation)

\* the list before de-duplication, in the order the method appends
CombinedInsights(comparison, trend_analysis, benchmark_evaluation, anomalies) ==
    TrendNotes(trend_analysis) \o EfficiencyNotes(comparison)
      \o BenchmarkNotes(benchmark_evaluation) \o AnomalyNotes(anomalies)

Elems(seq) == {seq[i] : i \in DOMAIN seq}

KeepAll(insights) == insights

RECURSIVE Dedup(_)
\* list(dict.fromkeys(insights)): the first occurrence of each text, in order
Dedup(insights) ==
    IF insights = <<>> THEN <<>>
    ELSE LET front == Dedup(SubSeq(insights, 1, Len(insights) - 1))
             x == insights[Len(insights)]
         IN  IF x \in Elems(front) THEN front ELSE Append(front, x)

MaxInsights == 5

\* insights[:5]
Truncate(insights) ==
    SubSeq(insights, 1, IF Len(insights) < MaxInsights THEN Len(insights) ELSE MaxInsights)

generate_insights(comparison, trend_analysis, benchmark_evaluation, anomalies) ==
    Truncate(Dedup(CombinedInsights(comparison, trend_analysis,
                                    benchmark_evaluation, anomalies)))

(***************************************************************************)
(* Group-level pass, detect_all and format_anomalies                       *)
(***************************************************************************)
ZeroTotals ==
    [impressions |-> 0, clicks |-> 0, spend |-> 0, conversions |-> 0,
     conversion_values |-> 0]

AddRow(agg, item) ==
    [impressions |-> agg.impressions + FieldValue(item, "impressions"),
     clicks |-> agg.clicks + FieldValue(item, "clicks"),
     spend |-> agg.spend + FieldValue(item, "spend"),
     conversions |-> agg.conversions + FieldValue(item, "conversions"),
     conversion_values |-> agg.conversion_values + FieldValue(item, "conversion_values")]

RECURSIVE aggregate_by_campaign(_)
\* one entry per campaign name, in the order of first appearance
aggregate_by_campaign(campaign_data) ==
    IF campaign_data = <<>> THEN <<>>
    ELSE LET aggregates == aggregate_by_campaign(SubSeq(campaign_data, 1,
                                                        Len(campaign_data) - 1))
             item == campaign_data[Len(campaign_data)]
             name == IF "campaign_name" \in DOMAIN item THEN item.campaign_name
                     ELSE "Unknown"
         IN  IF name \in Keys(aggregates)
             THEN [i \in DOMAIN aggregates |->
                     IF aggregates[i].key = name
                     THEN Entry(name, AddRow(aggregates[i].value, item))
                     ELSE aggregates[i]]
             ELSE Append(aggregates, Entry(name, AddRow(ZeroTotals, item)))

WholeOf(x) == x

\* no_conversion_spend * 0.5
HalfOf(x) == RMul(x, R(5, 10))

CampaignAnomalies(campaign_name, agg, thresholds) ==
    LET spend == FromInt(agg.spend)
        roas == IF agg.spend > 0 THEN R(agg.conversion_values, agg.spend) ELSE Zero
    IN  (IF RLt(roas, thresholds.roas_min)
         THEN <<Anomaly("ROAS", roas, Number(thresholds.roas_min), campaign_name,
                        "warning", Suggestion("campaign_roas_low", campaign_name, 0))>>
         ELSE <<>>)
        \o
        (IF agg.conversions = 0 /\ RGt(spend, HalfOf(thresholds.no_conversion_spend))
         THEN <<Anomaly("Conversions", Zero,
                        Text(HalfOf(thresholds.no_conversion_spend)), campaign_name,
                        "warning",
                        Suggestion("campaign_spent_without_conversion", campaign_name,
                                   Round2(spend)))>>
         ELSE <<>>)

RECURSIVE FlattenAnomalies(_, _)
FlattenAnomalies(aggregates, thresholds) ==
    IF aggregates = <<>> THEN <<>>
    ELSE CampaignAnomalies(Head(aggregates).key, Head(aggregates).value, thresholds)
         \o FlattenAnomalies(Tail(aggregates), thresholds)

\* _aggregate_by_campaign with the exception that can leave it
aggregate_by_campaign_call(campaign_data) ==
    IF \E i \in DOMAIN campaign_data : ItemRaises(campaign_data[i])
    THEN [raises |-> "ValueError", value |-> <<>>]
    ELSE [raises |-> "none", value |-> aggregate_by_campaign(campaign_data)]

detect_campaign_anomalies(campaign_data, thresholds) ==
    FlattenAnomalies(aggregate_by_campaign(campaign_data), thresholds)

\* detect_all; campaign_data is <<>> when the caller passes none
detect_all(data_, campaign_data, thresholds) ==
    detect_account_anomalies(data_, thresholds)
    \o (IF campaign_data # <<>>
        THEN detect_campaign_anomalies(campaign_data, thresholds)
        ELSE <<>>)

\* the sort key of format_anomalies
SeverityRank(anomaly) == IF anomaly.severity = "critical" THEN 0 ELSE 1

InsertBeforeEqual(sorted, x) ==
    LET k == Cardinality({i \in DOMAIN sorted :
                            SeverityRank(sorted[i]) < SeverityRank(x)})
    IN  SubSeq(sorted, 1, k) \o <<x>> \o SubSeq(sorted, k + 1, Len(sorted))

\* one step of the stable sort: x goes behind the elements whose key is not
\* above its own
InsertAfterEqual(sorted, x) ==
    LET k == Cardinality({i \in DOMAIN sorted :
                            SeverityRank(sorted[i]) <= SeverityRank(x)})
    IN  SubSeq(sorted, 1, k) \o <<x>> \o SubSeq(sorted, k + 1, Len(sorted))

RECURSIVE SortedBySeverity(_)
\* sorted(anomalies, key=...), element by element in list order
SortedBySeverity(anomalies) ==
    IF anomalies = <<>> THEN <<>>
    ELSE InsertAfterEqual(SortedBySeverity(SubSeq(anomalies, 1, Len(anomalies) - 1)),
                          anomalies[Len(anomalies)])

\* format_anomalies: the text lists the sorted anomalies; none_found marks
\* the fixed text for an empty list
format_anomalies(anomalies) ==
    [none_found |-> anomalies = <<>>,
     lines |-> SortedBySeverity(anomalies)]

(***************************************************************************)
(* DataCache                                                               *)
(* A cache file is None (no file) or [age, value]: age is the number of    *)
(* seconds since the entry's timestamp, value the decoded JSON document.   *)
(***************************************************************************)
CacheExpireSeconds == 86400

\* json.dump then json.load: an object's keys come back as strings; the
\* aggregates (string keys, numbers) come back unchanged
JsonRoundTrip(value) ==
    [i \in DOMAIN value |-> Entry(StrKey(value[i].key.v), value[i].value)]

\* DataCache.get: [value, file] - the value returned and the file left behind
cache_get(file, expire_seconds) ==
    IF file = None THEN [value |-> None, file |-> None]
    ELSE IF file.age > expire_seconds
    THEN [value |-> None, file |-> None]
    ELSE [value |-> file.value, file |-> file]

\* DataCache.set: the file written
cache_set(value) == [age |-> 0, value |-> JsonRoundTrip(value)]

\* no DataCache used on its own and no scheduler started
StoreIdle ==
    /\ cache_dir = <<>>
    /\ self_expire_seconds = CacheExpireSeconds
    /\ scheduler = [state |-> "off", last |-> "none"]

(***************************************************************************)
(* ReportTemplates                                                         *)
(* A text is modelled by the values formatted into it.                     *)
(***************************************************************************)
\* anomaly_section: the fixed "none found" text for an empty argument
anomaly_section(anomalies) ==
    IF anomalies = <<>> THEN [none_found |-> TRUE, body |-> <<>>]
    ELSE [none_found |-> FALSE, body |-> anomalies]

\* full_report: the anomaly section is rendered from an empty list
full_report(overview, trend_analysis, anomalies, benchmark_evaluation, benchmark_score, insights) ==
    [overview_section |-> [spend |-> Round2(Get(overview, "spend")),
                           clicks |-> Get(overview, "clicks"),
                           conversions |-> Get(overview, "conversions"),
                           roas |-> Round2(Get(overview, "roas"))],
     trend_section |-> GetDict(trend_analysis, "metrics_trend"),
     anomaly_section |-> anomaly_section(<<>>),
     benchmark_section |-> [evaluation |-> benchmark_evaluation,
                            score |-> benchmark_score],
     insights_section |-> insights]

(***************************************************************************)
(* ReportGenerator.generate_daily_report                                   *)
(* One run: _fetch_data (cache read, three insight requests, aggregation,  *)
(* cache write), _analyze_data (trend, benchmark, anomalies, insights) and *)
(* _build_report.  pc names the next step; "done" and "raised" end a run.  *)
(***************************************************************************)
MaxApiRows == 1

Periods == <<1, 3, 7>>

\* rows the insights endpoint can serve
ApiRows ==
    {JsonRow(r) : r \in
    { [date_start |-> 1, impressions |-> 1000, clicks |-> 50, spend |-> 100,
       conversions |-> 5, conversion_values |-> 400],
      [date_start |-> 1, impressions |-> 300, clicks |-> 1, spend |-> 150,
       conversions |-> 0, conversion_values |-> 0],
      [date_start |-> 1, impressions |-> 300, clicks |-> 0, spend |-> 50,
       conversions |-> 0, conversion_values |-> 0],
      [date_start |-> 2, impressions |-> 4, clicks |-> 2, spend |-> 2,
       conversions |-> 1, conversion_values |-> 9],
      [date_start |-> 2, impressions |-> 100, clicks |-> 0, spend |-> 10,
       conversions |-> 1, conversion_values |-> 30] } }

\* the request parameters of get_campaign_insights: the dates (here in days
\* from today) are logged, not sent
InsightsParams(start_date, end_date) ==
    [date_preset |-> "last_7d", level |-> "campaign", time_increment |-> 1]

\* data.get(days, {}) with an int argument: an int matches an int key only
GetByInt(data_by_period, days) == GetPeriod(data_by_period, IntKey(days))

\* today is the date date.today() gives while the run fetches its data
MaxDay == 2

\* generate_daily_report called directly, with or without the cache, or
\* through generate_and_send_report, which validates the settings, always
\* uses the cache, saves the report and pushes the notification when asked
RequiredSettings == <<"META_ACCESS_TOKEN", "META_AD_ACCOUNT_ID", "FEISHU_WEBHOOK_URL">>

\* a setting is a text, empty when the environment does not define it
SettingsChoices == [{RequiredSettings[i] : i \in 1..3} -> {"", "set"}]

CompleteSettings == [name \in {RequiredSettings[i] : i \in 1..3} |-> "set"]

\* a validation that looks at the access token only
validate_token(settings) ==
    LET missing == SelectSeq(<<"META_ACCESS_TOKEN">>, LAMBDA name : settings[name] = "")
    IN  [is_valid |-> Len(missing) = 0, missing |-> missing]

\* Settings.validate: (is_valid, missing)
validate(settings) ==
    LET missing == SelectSeq(RequiredSettings, LAMBDA name : settings[name] = "")
    IN  [is_valid |-> Len(missing) = 0, missing |-> missing]

\* main: send_notification=not args.no_notify and not args.test
SendNotificationOption(no_notify, test) == ~no_notify /\ ~test

MainInvocations(earliest) ==
    {[op |-> "generate_and_send_report", use_cache |-> TRUE,
      send_notification |-> SendNotificationOption(o.no_notify, o.test),
      no_notify |-> o.no_notify, test |-> o.test,
      settings |-> o.settings, today |-> o.today] :
        o \in [no_notify : BOOLEAN, test : BOOLEAN, settings : SettingsChoices,
               today : earliest..MaxDay]}

Invocations(earliest) ==
    [op : {"generate_daily_report"}, use_cache : BOOLEAN,
     send_notification : {FALSE}, no_notify : {FALSE}, test : {FALSE},
     settings : {CompleteSettings}, today : earliest..MaxDay]
    \cup MainInvocations(earliest)

EntryPoint(invocation) ==
    IF invocation.op = "generate_and_send_report" THEN "validate" ELSE "fetch_data"

\* _fetch_data: the key of the day's cache entry
cache_key(today) == [prefix |-> "ads_data", day |-> today]

Call(name, state) == [op |-> name, state |-> state, key |-> None, params |-> None]

CacheCall(name, state, key) ==
    [op |-> name, state |-> state, key |-> key, params |-> None]

\* requests.get(url, params=params) issued
RequestCall(params) ==
    [op |-> "fetch", state |-> "outstanding", key |-> None, params |-> params]

\* a fetch that requests the insights whatever the cache returned
AlwaysRequest(usable) == "request"

\* _fetch_data: a usable cached value ends the fetch, anything else goes on
\* to the insight requests
AfterCacheRead(usable) == IF usable THEN "analyze_trend" ELSE "request"

\* a call whose completion is not awaited
LeftOutstanding(log, state) == log

\* the last call of the log takes the state of its completion
Completed(log, state) == [log EXCEPT ![Len(log)].state = state]

Init ==
    /\ \E invocation \in Invocations(1) :
          /\ op = invocation.op
          /\ args = invocation
          /\ pc = EntryPoint(invocation)
    /\ ret = None
    /\ calls = <<>>
    /\ cache_file = None
    /\ multi_period_data = <<>>
    /\ aggregated_data = <<>>
    /\ analysis = EmptyDict
    /\ class_benchmarks = BENCHMARKS
    /\ managers = <<construct_manager(BENCHMARKS, <<>>).self>>
    /\ StoreIdle

\* no BenchmarkManager constructed yet
TablesIdle ==
    /\ class_benchmarks = BENCHMARKS
    /\ managers = <<>>
    /\ StoreIdle

GeneratorIdle ==
    /\ calls = <<>>
    /\ cache_file = None
    /\ multi_period_data = <<>>
    /\ aggregated_data = <<>>
    /\ analysis = EmptyDict

\* generate_and_send_report: nothing is generated with invalid settings
ValidateSettings ==
    /\ pc = "validate"
    /\ pc' = IF validate(args.settings).is_valid THEN "fetch_data" ELSE "rejected"
    /\ UNCHANGED <<op, args, ret, generator, tables>>

\* _fetch_data, the cache read: a non-empty cached value is returned as is
ReadCache ==
    /\ pc = "fetch_data"
    /\ IF args.use_cache
       THEN LET cached == cache_get(cache_file, CacheExpireSeconds)
                usable == cached.value # None /\ cached.value # <<>>
                key == cache_key(args.today)
            IN  /\ cache_file' = cached.file
                /\ pc' = AfterCacheRead(usable)
                /\ IF usable
                   THEN /\ aggregated_data' = cached.value
                        /\ calls' = Append(calls, CacheCall("cache_read", "hit", key))
                   ELSE /\ aggregated_data' = aggregated_data
                        /\ calls' = Append(calls, CacheCall("cache_read", "miss", key))
       ELSE /\ pc' = "request"
            /\ UNCHANGED <<cache_file, aggregated_data, calls>>
    /\ UNCHANGED <<op, args, ret, multi_period_data, analysis>>
    /\ UNCHANGED tables

\* get_multi_period_data, one iteration: _make_request sends the request
\* and blocks
SendRequest ==
    /\ pc = "request"
    /\ pc' = "awaiting_response"
    /\ LET days == Periods[Len(multi_period_data) + 1]
       IN  calls' = Append(calls, RequestCall(InsightsParams(-days, 0)))
    /\ UNCHANGED <<op, args, ret, cache_file, multi_period_data, aggregated_data,
                   analysis>>
    /\ UNCHANGED tables

\* the response arrives and the iteration stores it.  The endpoint answers
\* a request by its parameters, so requests of one run with equal parameters
\* are served the same rows
RequestPeriod ==
    /\ pc = "awaiting_response"
    /\ LET days == Periods[Len(multi_period_data) + 1]
           params == calls[Len(calls)].params
       IN  \E rows \in SeqsUpTo(ApiRows, MaxApiRows) :
              /\ \A i \in DOMAIN multi_period_data :
                    InsightsParams(-multi_period_data[i].key.v, 0) = params
                    => rows = multi_period_data[i].value
              /\ multi_period_data' = Append(multi_period_data,
                                             Entry(IntKey(days), rows))
    /\ pc' = IF Len(multi_period_data') = Len(Periods) THEN "aggregate" ELSE "request"
    /\ calls' = Completed(calls, "ok")
    /\ UNCHANGED <<op, args, ret, cache_file, aggregated_data, analysis>>
    /\ UNCHANGED tables

\* _make_request raises: the exception leaves generate_daily_report
RequestFails ==
    /\ pc = "awaiting_response"
    /\ pc' = "raised"
    /\ ret' = [raises |-> "RequestException"]
    /\ calls' = Completed(calls, "failed")
    /\ UNCHANGED <<op, args, cache_file, multi_period_data, aggregated_data,
                   analysis>>
    /\ UNCHANGED tables

\* _fetch_data, aggregation of every period and the cache write
AggregateAndStore ==
    /\ pc = "aggregate"
    /\ LET results == [i \in DOMAIN multi_period_data |->
                         aggregate_metrics(multi_period_data[i].value)]
       IN  IF \E i \in DOMAIN multi_period_data : results[i].raises # "none"
           THEN /\ pc' = "raised"
                /\ LET first == CHOOSE i \in DOMAIN multi_period_data :
                                    /\ results[i].raises # "none"
                                    /\ \A j \in 1..(i - 1) : results[j].raises = "none"
                   IN  ret' = [raises |-> results[first].raises]
                /\ UNCHANGED <<cache_file, aggregated_data, calls>>
           ELSE LET aggregated == [i \in DOMAIN multi_period_data |->
                                     Entry(multi_period_data[i].key, results[i].value)]
                IN  /\ cache_file' = cache_set(aggregated)
                    /\ aggregated_data' = aggregated
                    /\ pc' = "analyze_trend"
                    /\ ret' = ret
                    /\ calls' = Append(calls, CacheCall("cache_write", "ok",
                                                        cache_key(args.today)))
    /\ UNCHANGED <<op, args, multi_period_data, analysis>>
    /\ UNCHANGED tables

AnalyzeTrend ==
    /\ pc = "analyze_trend"
    /\ analysis' =
         [trend |-> [comparison |-> compare_periods(GetByInt(aggregated_data, 1),
                                                    GetByInt(aggregated_data, 3)),
                     multi_period |-> analyze_multi_period(aggregated_data)]]
    /\ pc' = "analyze_benchmark"
    /\ UNCHANGED <<op, args, ret, cache_file, multi_period_data, aggregated_data>>
    /\ UNCHANGED <<tables, calls>>

AnalyzeBenchmark ==
    /\ pc = "analyze_benchmark"
    /\ LET evaluation == analyze_all_metrics(managers[1],
                                             GetByInt(aggregated_data, 1))
       IN  analysis' = analysis @@
             [benchmark |-> [evaluation |-> evaluation,
                             score |-> get_overall_score(evaluation)]]
    /\ pc' = "detect_anomalies"
    /\ UNCHANGED <<op, args, ret, cache_file, multi_period_data, aggregated_data>>
    /\ UNCHANGED <<tables, calls>>

\* an anomaly pass handed the fetched rows of the current period
CurrentPeriodRows(fetched) == IF fetched = <<>> THEN <<>> ELSE fetched[1].value

\* detect_all(current_data): campaign_data is left at its default, None
NoCampaignData(fetched) == <<>>

DetectAnomalies ==
    /\ pc = "detect_anomalies"
    /\ LET anomalies == detect_all(GetByInt(aggregated_data, 1),
                                   NoCampaignData(multi_period_data),
                                   DefaultThresholds)
       IN  analysis' = analysis @@
             [anomalies |-> [list |-> anomalies,
                             formatted |-> format_anomalies(anomalies)]]
    /\ pc' = "generate_insights"
    /\ UNCHANGED <<op, args, ret, cache_file, multi_period_data, aggregated_data>>
    /\ UNCHANGED <<tables, calls>>

GenerateInsights ==
    /\ pc = "generate_insights"
    /\ analysis' = analysis @@
         [insights |-> generate_insights(analysis.trend.comparison,
                                         analysis.trend.multi_period,
                                         analysis.benchmark.evaluation,
                                         analysis.anomalies.list)]
    /\ pc' = "build_report"
    /\ UNCHANGED <<op, args, ret, cache_file, multi_period_data, aggregated_data>>
    /\ UNCHANGED <<tables, calls>>

BuildReport ==
    /\ pc = "build_report"
    /\ LET current_data == GetByInt(aggregated_data, 1)
           benchmark_score == analysis.benchmark.score
       IN  ret' = [raises |-> "none",
                   value |->
                     [data |-> current_data,
                      analysis |-> analysis,
                      text_report |-> full_report(current_data,
                                                  analysis.trend.multi_period,
                                                  analysis.anomalies.formatted,
                                                  analysis.benchmark.evaluation,
                                                  benchmark_score,
                                                  analysis.insights),
                      summary |-> [spend |-> Get(current_data, "spend"),
                                   clicks |-> Get(current_data, "clicks"),
                                   conversions |-> Get(current_data, "conversions"),
                                   roas |-> Get(current_data, "roas"),
                                   cpc |-> Get(current_data, "cpc"),
                                   benchmark_score |-> benchmark_score]]]
    /\ pc' = IF op = "generate_and_send_report" THEN "save_report" ELSE "done"
    /\ UNCHANGED <<op, args, cache_file, multi_period_data, aggregated_data,
                   analysis>>
    /\ UNCHANGED <<tables, calls>>

\* generate_and_send_report: the text report is written to its file
SaveReport ==
    /\ pc = "save_report"
    /\ calls' = Append(calls, Call("save_report", "ok"))
    /\ pc' = IF args.send_notification THEN "notify" ELSE "done"
    /\ UNCHANGED <<op, args, ret, cache_file, multi_period_data, aggregated_data,
                   analysis>>
    /\ UNCHANGED tables

\* FeishuNotifier.send_report: the card is posted to the webhook and the
\* call blocks
SendNotification ==
    /\ pc = "notify"
    /\ pc' = "awaiting_notification"
    /\ calls' = Append(calls, Call("notify", "outstanding"))
    /\ UNCHANGED <<op, args, ret, cache_file, multi_period_data, aggregated_data,
                   analysis>>
    /\ UNCHANGED tables

\* _send_message returns True or False; the report is returned either way
NotificationReturns ==
    /\ pc = "awaiting_notification"
    /\ pc' = "done"
    /\ \E outcome \in {"ok", "failed"} : calls' = Completed(calls, outcome)
    /\ UNCHANGED <<op, args, ret, cache_file, multi_period_data, aggregated_data,
                   analysis>>
    /\ UNCHANGED tables

\* the next invocation on the same day: the cache file has aged up to or
\* past the expiry
\* open(output_path, 'w') or the write raises
SaveReportFails ==
    /\ pc = "save_report"
    /\ calls' = Append(calls, Call("save_report", "failed"))
    /\ pc' = "raised"
    /\ ret' = [raises |-> "OSError"]
    /\ UNCHANGED <<op, args, cache_file, multi_period_data, aggregated_data,
                   analysis>>
    /\ UNCHANGED tables

\* the next call: fresh locals, on the day of the last call or a later one
StartRun(invocation) ==
    /\ op' = invocation.op
    /\ args' = invocation
    /\ pc' = EntryPoint(invocation)
    \* cache_file is the file under the day's key: none yet on a new day
    /\ cache_file' \in IF cache_file = None \/ invocation.today # args.today
                      THEN {None}
                      ELSE {[cache_file EXCEPT !.age = CacheExpireSeconds],
                            [cache_file EXCEPT !.age = CacheExpireSeconds + 1]}
    /\ ret' = None
    /\ calls' = <<>>
    /\ multi_period_data' = <<>>
    /\ aggregated_data' = <<>>
    /\ analysis' = EmptyDict

NextRun ==
    /\ pc \in {"done", "raised", "rejected"}
    /\ \E invocation \in Invocations(args.today) : StartRun(invocation)
    /\ UNCHANGED tables

Next ==
    \/ ValidateSettings
    \/ ReadCache
    \/ SendRequest
    \/ RequestPeriod
    \/ RequestFails
    \/ AggregateAndStore
    \/ AnalyzeTrend
    \/ AnalyzeBenchmark
    \/ DetectAnomalies
    \/ GenerateInsights
    \/ BuildReport
    \/ SaveReport
    \/ SaveReportFails
    \/ SendNotification
    \/ NotificationReturns
    \/ NextRun

Spec == Init /\ [][Next]_vars

(***************************************************************************)
(* Inputs of the aggregation check: lists of at most MaxRows raw rows.     *)
(***************************************************************************)
MaxRows == 2

\* a row reports a conversion value only for conversions it counted
RawRows ==
    {r \in [date_start : {1, 2}, impressions : {0, 100}, clicks : {0, 10},
            spend : {0, 20}, conversions : {0, 2}, conversion_values : {0, 50}] :
        r.conversion_values > 0 => r.conversions > 0}

InitAggregate ==
    /\ pc = "call"
    /\ op = "aggregate_metrics"
    /\ args \in [data : SeqsUpTo(RawRows, MaxRows)]
    /\ ret = None
    /\ GeneratorIdle
    /\ TablesIdle

CallAggregate ==
    /\ pc = "call"
    /\ op = "aggregate_metrics"
    /\ ret' = aggregate_metrics(JsonRows(args.data))
    /\ pc' = "return"
    /\ UNCHANGED <<op, args, generator, tables>>

SpecAggregate == InitAggregate /\ [][CallAggregate]_vars

Returned(name) == pc = "return" /\ op = name

\* the totals of the rows passed to aggregate_metrics
RECURSIVE Total(_, _)
\* the plain sum of the numbers rows[i][f]
Total(rows, f) == IF rows = <<>> THEN 0 ELSE Head(rows)[f] + Total(Tail(rows), f)

ArgTotal(f) == Total(args.data, f)

\* C8: for every list of raw rows aggregation returns without a fault, and
\* each derived field is 0 whenever its own denominator is 0 (ctr:
\* impressions; cpc, conversion_rate: clicks; cpa: conversions; roas: spend;
\* frequency: distinct days), also with conversions > 0 and clicks = 0.
C8_DerivedZeroOnZeroDenominator ==
    Returned("aggregate_metrics") =>
        /\ ret.raises = "none"
        /\ ArgTotal("impressions") = 0 => REq(Get(ret.value, "ctr"), Zero)
        /\ ArgTotal("clicks") = 0 =>
              /\ REq(Get(ret.value, "cpc"), Zero)
              /\ REq(Get(ret.value, "conversion_rate"), Zero)
        /\ ArgTotal("conversions") = 0 => REq(Get(ret.value, "cpa"), Zero)
        /\ ArgTotal("spend") = 0 => REq(Get(ret.value, "roas"), Zero)
        /\ DistinctDays(args.data) = 0 => REq(Get(ret.value, "frequency"), Zero)

\* C9 as stated: with total spend 0, roas, cpc, cpa and conversion_rate of
\* the returned aggregate are all 0 whatever the clicks, conversions and
\* conversion value totals are.
C9_SpendZeroAllZero ==
    (/\ Returned("aggregate_metrics")
     /\ args.data # <<>>
     /\ ArgTotal("spend") = 0
     /\ ret.raises = "none") =>
        /\ REq(Get(ret.value, "roas"), Zero)
        /\ REq(Get(ret.value, "cpc"), Zero)
        /\ REq(Get(ret.value, "cpa"), Zero)
        /\ REq(Get(ret.value, "conversion_rate"), Zero)

\* C9 amended: with total spend 0, aggregation faults exactly when
\* conversions > 0 and clicks = 0; when it returns, roas, cpc and cpa are 0
\* and conversion_rate is conversions/clicks x 100, which is 0 only when
\* conversions = 0.
C9_SpendZeroAmended ==
    (Returned("aggregate_metrics") /\ args.data # <<>> /\ ArgTotal("spend") = 0) =>
        /\ ret.raises # "none" <=>
              (ArgTotal("conversions") > 0 /\ ArgTotal("clicks") = 0)
        /\ ret.raises = "none" =>
              /\ REq(Get(ret.value, "roas"), Zero)
              /\ REq(Get(ret.value, "cpc"), Zero)
              /\ REq(Get(ret.value, "cpa"), Zero)
              /\ ArgTotal("conversions") = 0 =>
                    REq(Get(ret.value, "conversion_rate"), Zero)
              /\ ArgTotal("conversions") > 0 =>
                    /\ Get(ret.value, "conversion_rate").n * ArgTotal("clicks")
                          = 100 * ArgTotal("conversions") * Get(ret.value, "conversion_rate").d
                    /\ RGt(Get(ret.value, "conversion_rate"), Zero)

\* a returned aggregate with spend 0, clicks > 0 and conversions > 0
C9_Witness ==
    /\ Returned("aggregate_metrics")
    /\ ArgTotal("spend") = 0
    /\ ArgTotal("clicks") > 0
    /\ ArgTotal("conversions") > 0
    /\ ArgTotal("conversion_values") > 0
    /\ ret.raises = "none"

(***************************************************************************)
(* Account-level anomaly pass on any aggregate and any four thresholds     *)
(***************************************************************************)
Units(S) == {R(x, 10) : x \in S}

AccountAggregates ==
    [roas : Units({10, 20, 25}), cpc : Units({15, 20, 30}),
     spend : Units({0, 1000, 1500}), conversions : Units({0, 10}),
     frequency : Units({30, 40, 45})]
    \cup {EmptyDict}

ThresholdChoices ==
    [roas_min : Units({20, 25}), cpc_max : Units({20, 15}),
     no_conversion_spend : Units({1000, 1500}), frequency_max : Units({40, 30})]

InitDetect ==
    /\ pc = "call"
    /\ op = "detect_account_anomalies"
    /\ args \in [data : AccountAggregates, thresholds : ThresholdChoices]
    /\ ret = None
    /\ GeneratorIdle
    /\ TablesIdle

CallDetect ==
    /\ pc = "call"
    /\ op = "detect_account_anomalies"
    /\ ret' = detect_account_anomalies(args.data, args.thresholds)
    /\ pc' = "return"
    /\ UNCHANGED <<op, args, generator, tables>>

SpecDetect == InitDetect /\ [][CallDetect]_vars

RuleOrder == <<"ROAS", "CPC", "Conversions", "Frequency">>

RuleSeverity ==
    [ROAS |-> "critical", CPC |-> "warning", Conversions |-> "critical",
     Frequency |-> "warning"]

\* the condition of each account rule, on the aggregate d and thresholds t
RuleHolds(rule, d, t) ==
    CASE rule = "ROAS" -> Get(d, "roas").n * t.roas_min.d < t.roas_min.n * Get(d, "roas").d
      [] rule = "CPC" -> Get(d, "cpc").n * t.cpc_max.d > t.cpc_max.n * Get(d, "cpc").d
      [] rule = "Conversions" ->
            /\ Get(d, "conversions").n = 0
            /\ Get(d, "spend").n * t.no_conversion_spend.d
                 > t.no_conversion_spend.n * Get(d, "spend").d
      [] rule = "Frequency" ->
            Get(d, "frequency").n * t.frequency_max.d
              > t.frequency_max.n * Get(d, "frequency").d

\* C1: the account-level pass returns exactly one anomaly per rule whose
\* condition holds and none for a rule whose condition fails, in the order
\* ROAS, CPC, conversions, Frequency, each with scope "Account" and the
\* severity of its rule (ROAS and conversions critical, CPC and Frequency
\* warning).
C1_AccountRules ==
    Returned("detect_account_anomalies") =>
        /\ [i \in DOMAIN ret |-> ret[i].metric]
             = SelectSeq(RuleOrder, LAMBDA r : RuleHolds(r, args.data, args.thresholds))
        /\ \A i \in DOMAIN ret :
              /\ ret[i].campaign = "Account"
              /\ ret[i].severity = RuleSeverity[ret[i].metric]

\* roas 1.0, spend 150, conversions 0 under the default thresholds: exactly
\* the ROAS and the conversion anomaly, both critical
C1_Witness ==
    /\ Returned("detect_account_anomalies")
    /\ args.thresholds = DefaultThresholds
    /\ args.data # EmptyDict
    /\ args.data.roas = R(10, 10)
    /\ args.data.spend = R(1500, 10)
    /\ args.data.conversions = Zero
    /\ Len(ret) = 2
    /\ ret[1].metric = "ROAS" /\ ret[1].severity = "critical"
    /\ ret[2].metric = "Conversions" /\ ret[2].severity = "critical"

(***************************************************************************)
(* evaluate on the built-in table and on tables with one overridden metric *)
(***************************************************************************)
CustomDefinitions ==
    { MetricBenchmark(R(10, 10), R(20, 10), R(30, 10), R(5, 10), TRUE),
      MetricBenchmark(R(10, 10), R(20, 10), R(5, 10), R(15, 10), TRUE),
      MetricBenchmark(R(10, 10), R(20, 10), R(10, 10), R(30, 10), FALSE),
      MetricBenchmark(R(10, 10), R(20, 10), R(25, 10), R(15, 10), FALSE) }

CustomBenchmarks ==
    {<<>>} \cup {<<Entry(BENCHMARKS[i].key, b)>> :
                    i \in DOMAIN BENCHMARKS, b \in CustomDefinitions}
           \cup {<<Entry("Unregistered", b)>> : b \in CustomDefinitions}

\* the values probed for a definition: its four numbers and a tenth either side
ProbeValues(b) ==
    LET marks == {b.industry_min, b.industry_max, b.excellent, b.alert_threshold}
        tenth == R(1, 10)
    IN  marks \cup {RAdd(m, tenth) : m \in marks} \cup {RSub(m, tenth) : m \in marks}
              \cup {Zero}

EvaluateArgs(customs) ==
    UNION { LET table == BenchmarkManager(custom)
            IN  UNION { { [custom |-> custom, metric |-> table[i].key, value |-> v] :
                            v \in ProbeValues(table[i].value) } : i \in DOMAIN table }
                \cup { [custom |-> custom, metric |-> "Unregistered", value |-> Zero] }
          : custom \in customs }

InitEvaluate ==
    /\ pc = "call"
    /\ op = "evaluate"
    /\ args \in EvaluateArgs(CustomBenchmarks)
    /\ ret = None
    /\ GeneratorIdle
    /\ TablesIdle

CallEvaluate ==
    /\ pc = "call"
    /\ op = "evaluate"
    /\ ret' = evaluate(BenchmarkManager(args.custom), args.metric, args.value)
    /\ pc' = "return"
    /\ UNCHANGED <<op, args, generator, tables>>

SpecEvaluate == InitEvaluate /\ [][CallEvaluate]_vars

\* the definition in effect for the metric of the call
ArgBenchmark == Lookup(BenchmarkManager(args.custom), args.metric)

Below(x, y) == x.n * y.d < y.n * x.d

MaxEvaluations == 4

ScoreNames == <<"ROAS", "CPC", "CTR", "CPA", "Frequency", "ConversionRate", "Other">>

\* a result with one of the four statuses, "unknown", a status outside the
\* list, or no status key at all
ScoredResults ==
    {[status |-> st] : st \in {"excellent", "good", "warning", "critical",
                                "unknown", "paused"}}
    \cup {EmptyDict}

Evaluations(n) ==
    {[i \in DOMAIN rs |-> Entry(ScoreNames[i], rs[i])] :
        rs \in SeqsUpTo(ScoredResults, n)}

InitScore ==
    /\ pc = "call"
    /\ op = "get_overall_score"
    /\ args \in [evaluation : Evaluations(MaxEvaluations)]
    /\ ret = None
    /\ GeneratorIdle
    /\ TablesIdle

CallScore ==
    /\ pc = "call"
    /\ op = "get_overall_score"
    /\ ret' = get_overall_score(args.evaluation)
    /\ pc' = "return"
    /\ UNCHANGED <<op, args, generator, tables>>

SpecScore == InitScore /\ [][CallScore]_vars

ClaimedScore(result) ==
    IF "status" \notin DOMAIN result THEN 50
    ELSE IF result.status = "excellent" THEN 100
    ELSE IF result.status = "good" THEN 75
    ELSE IF result.status = "critical" THEN 25
    ELSE 50

RECURSIVE ClaimedTotal(_)
ClaimedTotal(evaluation) ==
    IF evaluation = <<>> THEN 0
    ELSE ClaimedScore(Head(evaluation).value) + ClaimedTotal(Tail(evaluation))

\* C10: overall_score is in [0,100]; it is 0 for an empty mapping, otherwise
\* the mean of the per-metric scores (excellent 100, good 75, warning 50,
\* critical 25, anything else 50) rounded to one decimal, i.e. within 0.05
\* of the mean; all-excellent scores 100.  ret counts tenths.
C10_OverallScore ==
    Returned("get_overall_score") =>
        LET n == Len(args.evaluation)
            total == ClaimedTotal(args.evaluation)
        IN  /\ 0 <= ret /\ ret <= 1000
            /\ n = 0 => ret = 0
            /\ n > 0 => 2 * Abs(ret * n - 10 * total) <= n
            /\ (n > 0 /\ \A i \in 1..n : StatusOf(args.evaluation[i].value) = "excellent")
                 => ret = 1000

\* four metrics whose mean 31.25 lies between two tenths, with a critical one
C10_Witness ==
    /\ Returned("get_overall_score")
    /\ Len(args.evaluation) = 4
    /\ ClaimedTotal(args.evaluation) = 125
    /\ ret = 312

(***************************************************************************)
(* compare_periods on aggregates that hold at most one metric each         *)
(***************************************************************************)
CompareValues == {Zero, R(1, 1), R(2, 1), R(21, 10), R(3, 1), R(19, 10)}

SingleMetricDicts(metrics, values) ==
    {EmptyDict} \cup UNION {{[k \in {m} |-> v] : v \in values} : m \in metrics}

InitCompare ==
    /\ pc = "call"
    /\ op = "compare_periods"
    /\ args \in [current_data : SingleMetricDicts(CompareMetrics, CompareValues),
                 previous_data : SingleMetricDicts(CompareMetrics, CompareValues)]
    /\ ret = None
    /\ GeneratorIdle
    /\ TablesIdle

CallCompare ==
    /\ pc = "call"
    /\ op = "compare_periods"
    /\ ret' = compare_periods(args.current_data, args.previous_data)
    /\ pc' = "return"
    /\ UNCHANGED <<op, args, generator, tables>>

SpecCompare == InitCompare /\ [][CallCompare]_vars

\* C3: for each metric of the fixed set the reported percent change is
\* (current - previous)/previous x 100 (to the reported two decimals) when
\* previous > 0; with previous = 0 it is 0 when current = 0 and 100
\* otherwise.  change_percent counts hundredths of a percent.
C3_PercentChange ==
    Returned("compare_periods") =>
        /\ DOMAIN ret = CompareMetrics
        /\ \A m \in CompareMetrics :
              LET c == Get(args.current_data, m)
                  p == Get(args.previous_data, m)
                  r == ret[m].change_percent
              IN  /\ p.n > 0 =>
                        2 * Abs(r * p.n * c.d - 10000 * (c.n * p.d - p.n * c.d))
                          <= p.n * c.d
                  /\ (p.n = 0 /\ c.n = 0) => r = 0
                  /\ (p.n = 0 /\ c.n # 0) => r = 10000

\* previous = 0 and current = 0 for every metric, and a rounded quotient
C3_Witness ==
    /\ Returned("compare_periods")
    /\ args.current_data = [k \in {"roas"} |-> R(1, 1)]
    /\ args.previous_data = [k \in {"roas"} |-> R(3, 1)]
    /\ ret["roas"].change_percent = -6667
    /\ ret["spend"].change_percent = 0

(***************************************************************************)
(* analyze_multi_period on mappings keyed by any of the period lengths     *)
(* 1, 3, 7 in any insertion order                                          *)
(***************************************************************************)
PeriodLengths == {1, 3, 7}

RECURSIVE Orders(_)
\* the sequences that list every element of S once
Orders(S) ==
    IF S = {} THEN {<<>>}
    ELSE UNION {{Append(o, x) : o \in Orders(S \ {x})} : x \in S}

PeriodOrders == UNION {Orders(S) : S \in SUBSET PeriodLengths}

MultiValues == {R(5, 1), R(9, 1), R(10, 1), R(11, 1), R(11004, 1000), R(1101, 100)}

MultiPeriodArgs(orders) ==
    UNION { UNION { { [i \in DOMAIN o |-> Entry(IntKey(o[i]), ds[i])] :
                        ds \in [DOMAIN o -> SingleMetricDicts({m}, MultiValues)] }
                    : m \in MultiPeriodMetrics }
            : o \in orders }

InitMultiPeriod ==
    /\ pc = "call"
    /\ op = "analyze_multi_period"
    /\ args \in [data_by_period : MultiPeriodArgs(PeriodOrders)]
    /\ ret = None
    /\ GeneratorIdle
    /\ TablesIdle

CallMultiPeriod ==
    /\ pc = "call"
    /\ op = "analyze_multi_period"
    /\ ret' = analyze_multi_period(args.data_by_period)
    /\ pc' = "return"
    /\ UNCHANGED <<op, args, generator, tables>>

SpecMultiPeriod == InitMultiPeriod /\ [][CallMultiPeriod]_vars

\* C4: each metric's value sequence lists the periods of the input in
\* ascending length whatever the insertion order, and the classification
\* compares its last with its first value only: rising when last > first
\* x 1.1, falling when last < first x 0.9, stable otherwise, and
\* insufficient-data with fewer than 2 points.
C4_MultiPeriodTrend ==
    Returned("analyze_multi_period") =>
        \A m \in MultiPeriodMetrics :
            LET t == ret.metrics_trend[m]
                n == Len(t.values)
                first == t.values[1].value
                last == t.values[n].value
            IN  /\ n = Len(args.data_by_period)
                /\ {ret.periods[i] : i \in 1..n} = Keys(args.data_by_period)
                /\ \A i \in 1..n, j \in 1..n :
                      i < j => ret.periods[i].v < ret.periods[j].v
                /\ \A i \in 1..n :
                      /\ t.values[i].period = Digits(ret.periods[i].v)
                      /\ t.values[i].value =
                           Round2(Get(Lookup(args.data_by_period, ret.periods[i]), m))
                /\ n < 2 => t.trend = "insufficient"
                /\ n >= 2 =>
                      /\ t.trend = "rising" <=> 10 * last > 11 * first
                      /\ t.trend = "falling" <=> 10 * last < 9 * first
                      /\ t.trend = "stable" <=>
                           (10 * last <= 11 * first /\ 10 * last >= 9 * first)

\* periods {1: 10, 3: 10, 7: 5} inserted as 7, 1, 3: falling
C4_Witness ==
    /\ Returned("analyze_multi_period")
    /\ args.data_by_period =
         << Entry(IntKey(7), [k \in {"roas"} |-> R(5, 1)]),
            Entry(IntKey(1), [k \in {"roas"} |-> R(10, 1)]),
            Entry(IntKey(3), [k \in {"roas"} |-> R(10, 1)]) >>
    /\ ret.metrics_trend["roas"].trend = "falling"
    /\ ret.periods = <<IntKey(1), IntKey(3), IntKey(7)>>

(***************************************************************************)
(* _generate_insights on any trend result, comparison, benchmark           *)
(* evaluation and anomaly list of at most MaxAnomalies anomalies           *)
(***************************************************************************)
MaxAnomalies == 2

TrendChoices ==
    {EmptyDict} \cup
    {[metrics_trend |-> [roas |-> [trend_status |-> st]]] :
        st \in {"positive", "negative", "neutral"}}

ComparisonChoices ==
    {[spend |-> [change_percent |-> x], conversions |-> [change_percent |-> y]] :
        x \in {2000, 2001}, y \in {999, 1000}}

EvaluationChoices(table) ==
    {[i \in DOMAIN table |-> Entry(table[i].key, [is_alert |-> flags[i]])] :
        flags \in [DOMAIN table -> BOOLEAN]}

AnomalyChoices ==
    { Anomaly("ROAS", Zero, Number(Zero), "Account", "critical",
              Suggestion("roas_below_threshold", "", 0)),
      Anomaly("Conversions", Zero, Text(Zero), "Account", "critical",
              Suggestion("spent_without_conversion", "", 15000)),
      Anomaly("ROAS", Zero, Number(Zero), "Campaign A", "warning",
              Suggestion("campaign_roas_low", "Campaign A", 0)),
      Anomaly("ROAS", R(1, 1), Number(Zero), "Campaign B", "critical",
              Suggestion("roas_below_threshold", "", 0)),
      Anomaly("CTR", Zero, Number(Zero), "Account", "critical", NoSuggestion) }

InitInsights ==
    /\ pc = "call"
    /\ op = "generate_insights"
    /\ args \in [comparison : ComparisonChoices,
                 trend_analysis : TrendChoices,
                 benchmark_evaluation : EvaluationChoices(BENCHMARKS),
                 anomalies : SeqsUpTo(AnomalyChoices, MaxAnomalies)]
    /\ ret = None
    /\ GeneratorIdle
    /\ TablesIdle

CallInsights ==
    /\ pc = "call"
    /\ op = "generate_insights"
    /\ ret' = generate_insights(args.comparison, args.trend_analysis,
                                args.benchmark_evaluation, args.anomalies)
    /\ pc' = "return"
    /\ UNCHANGED <<op, args, generator, tables>>

SpecInsights == InitInsights /\ [][CallInsights]_vars

\* the position of the first anomaly of the argument list that is critical
\* and carries the suggestion sg
FirstTrigger(sg) ==
    CHOOSE i \in DOMAIN args.anomalies :
        /\ args.anomalies[i].severity = "critical"
        /\ args.anomalies[i].suggestion = sg
        /\ \A j \in 1..(i - 1) :
              ~(args.anomalies[j].severity = "critical"
                /\ args.anomalies[j].suggestion = sg)

Rank(insight) ==
    CASE insight.kind \in {"roas_rising", "roas_falling"} -> 1
      [] insight.kind = "spend_up_conversions_flat" -> 2
      [] insight.kind = "below_benchmark" -> 3
      [] insight.kind = "anomaly_suggestion" -> 4

ArgTrendStatus ==
    IF args.trend_analysis = EmptyDict THEN "unknown"
    ELSE args.trend_analysis.metrics_trend.roas.trend_status

\* C6: entries appear in priority order: the ROAS trend note (rising ->
\* positive note, falling -> warning note, otherwise none), then the
\* efficiency warning (present iff spend change% > 20 and conversions
\* change% < 10), then the benchmark alert notes, then the critical-anomaly
\* suggestions; an entry is missing only when the list is full with entries
\* of the same or a higher priority.
C6_PriorityOrder ==
    Returned("generate_insights") =>
        /\ \A i \in DOMAIN ret, j \in DOMAIN ret : i < j => Rank(ret[i]) <= Rank(ret[j])
        /\ (\E i \in DOMAIN ret : ret[i].kind = "roas_rising")
             <=> ArgTrendStatus = "positive"
        /\ (\E i \in DOMAIN ret : ret[i].kind = "roas_falling")
             <=> ArgTrendStatus = "negative"
        /\ (\E i \in DOMAIN ret : ret[i].kind = "spend_up_conversions_flat")
             <=> (/\ args.comparison.spend.change_percent > 2000
                  /\ args.comparison.conversions.change_percent < 1000)
        /\ \A e \in DOMAIN args.benchmark_evaluation :
              (/\ args.benchmark_evaluation[e].value.is_alert
               /\ ~\E i \in DOMAIN ret :
                     /\ ret[i].kind = "below_benchmark"
                     /\ ret[i].metric = args.benchmark_evaluation[e].key)
              => /\ Len(ret) = 5
                 /\ \A i \in DOMAIN ret : Rank(ret[i]) <= 3
        /\ \A a \in DOMAIN args.anomalies :
              (/\ args.anomalies[a].severity = "critical"
               /\ args.anomalies[a].suggestion # NoSuggestion
               /\ ~\E i \in DOMAIN ret :
                     /\ ret[i].kind = "anomaly_suggestion"
                     /\ ret[i].suggestion = args.anomalies[a].suggestion)
              => Len(ret) = 5

\* a full list: the trend note, the efficiency warning and three benchmark
\* notes, with a fourth alert-flagged metric and a critical anomaly left out
C6_Witness ==
    /\ Returned("generate_insights")
    /\ Len(ret) = 5
    /\ ret[1].kind = "roas_falling"
    /\ ret[2].kind = "spend_up_conversions_flat"
    /\ ret[5].kind = "below_benchmark"
    /\ Cardinality({e \in DOMAIN args.benchmark_evaluation :
                      args.benchmark_evaluation[e].value.is_alert}) = 4
    /\ \E a \in DOMAIN args.anomalies :
          /\ args.anomalies[a].severity = "critical"
          /\ args.anomalies[a].suggestion # NoSuggestion

(***************************************************************************)
(* Claims on a run of generate_daily_report                                *)
(***************************************************************************)
Finished == pc = "done"

AlertNote(metric) == Insight("below_benchmark", metric, NoSuggestion)

SuggestionNote(anomaly) == Insight("anomaly_suggestion", "", anomaly.suggestion)

\* the notes the run has cause to give, in priority order: the alert-flagged
\* metrics in table order, then the critical anomalies in detection order
DueNotes ==
    LET flagged == SelectSeq(analysis.benchmark.evaluation,
                             LAMBDA e : e.value.is_alert)
        critical == SelectSeq(analysis.anomalies.list,
                              LAMBDA a : a.severity = "critical")
    IN  [i \in DOMAIN flagged |-> AlertNote(flagged[i].key)]
        \o [i \in DOMAIN critical |-> SuggestionNote(critical[i])]

\* the trend and efficiency notes at the head of the list
LeadingNotes ==
    SelectSeq(analysis.insights,
              LAMBDA n : n.kind \notin {"below_benchmark", "anomaly_suggestion"})

\* C7 as stated: the recommendation list of a finished run holds one note
\* for every alert-flagged benchmark metric and the suggestion of every
\* critical anomaly the run detected.
C7_AllDueNotesListed ==
    Finished => \A i \in DOMAIN DueNotes : DueNotes[i] \in Elems(analysis.insights)

\* C7 amended: the recommendation list of a finished run is the first 5
\* entries of the trend and efficiency notes followed by the alert-flagged
\* metrics' notes and the critical anomalies' suggestions; every such note
\* is listed exactly when these number at most 5.
C7_DueNotesUpToCap ==
    Finished =>
        LET due == LeadingNotes \o DueNotes
        IN  /\ Len(analysis.insights) = IF Len(due) < 5 THEN Len(due) ELSE 5
            /\ \A i \in DOMAIN analysis.insights : analysis.insights[i] = due[i]
            /\ (\A i \in DOMAIN DueNotes : DueNotes[i] \in Elems(analysis.insights))
                 <=> Len(due) <= 5

\* a finished run whose list is full of benchmark notes and leaves out the
\* suggestions of two critical anomalies
C7_Witness ==
    /\ Finished
    /\ Len(analysis.insights) = 5
    /\ \A i \in DOMAIN analysis.insights : analysis.insights[i].kind = "below_benchmark"
    /\ Cardinality({a \in DOMAIN analysis.anomalies.list :
                      analysis.anomalies.list[a].severity = "critical"}) = 2

(***************************************************************************)
(* compare_with_previous on evaluations of at most MaxCompared metrics     *)
(***************************************************************************)
MaxCompared == 2

\* the four statuses, "unknown" (outside the list) and the empty one
StatusChoices == {"critical", "warning", "good", "excellent", "unknown", ""}

CurrentEvaluations(n) ==
    {[i \in DOMAIN sts |-> Entry(ScoreNames[i], [status |-> sts[i]])] :
        sts \in SeqsUpTo(StatusChoices, n)}

\* a previous evaluation: per metric no entry, an entry without a status, or
\* an entry with one
PreviousEvaluations(n) ==
    UNION { [ms -> {EmptyDict} \cup {[status |-> st] : st \in StatusChoices}] :
              ms \in SUBSET {ScoreNames[i] : i \in 1..n} }

InitStatusChange ==
    /\ pc = "call"
    /\ op = "compare_with_previous"
    /\ args \in [current_evaluation : CurrentEvaluations(MaxCompared),
                 previous_evaluation : PreviousEvaluations(MaxCompared)]
    /\ ret = None
    /\ GeneratorIdle
    /\ TablesIdle

CallStatusChange ==
    /\ pc = "call"
    /\ op = "compare_with_previous"
    /\ ret' = compare_with_previous(args.current_evaluation, args.previous_evaluation)
    /\ pc' = "return"
    /\ UNCHANGED <<op, args, generator, tables>>

SpecStatusChange == InitStatusChange /\ [][CallStatusChange]_vars

\* the position the statement gives a status: its place in [critical,
\* warning, good, excellent], the place of warning for any other status
ClaimedIndex(status) ==
    CASE status = "critical" -> 0
      [] status = "good" -> 2
      [] status = "excellent" -> 3
      [] OTHER -> 1

ClaimedDelta(previous, current) ==
    IF ClaimedIndex(current) > ClaimedIndex(previous) THEN "improved"
    ELSE IF ClaimedIndex(current) < ClaimedIndex(previous) THEN "declined"
    ELSE "stable"

\* C11: the change reported for every metric is the comparison of the
\* positions of the previous and the current status in [critical, warning,
\* good, excellent], an unrecognized or missing status taking the position
\* of warning.
C11_StatusDelta ==
    Returned("compare_with_previous") =>
        \A i \in DOMAIN ret :
            ret[i].value.change = ClaimedDelta(ret[i].value.previous_status,
                                               ret[i].value.current_status)

(***************************************************************************)
(* evaluate on a metric name that is not in the table                      *)
(***************************************************************************)
Registered(custom, metric) == metric \in Keys(BenchmarkManager(custom))

\* C12: evaluate on an unregistered metric name returns a result with
\* status unknown, gap 0 and the alert flag false, so a consumer can read
\* the three fields of any result.
C12_UnknownMetricResult ==
    (Returned("evaluate") /\ ~Registered(args.custom, args.metric)) =>
        /\ {"status", "gap_percent", "is_alert"} \subseteq DOMAIN ret
        /\ GetOr(ret, "status", "") = "unknown"
        /\ GetOr(ret, "gap_percent", 1) = 0
        /\ GetOr(ret, "is_alert", TRUE) = FALSE

(***************************************************************************)
(* detect_all on an account aggregate and at most MaxCampaignRows raw rows *)
(***************************************************************************)
MaxCampaignRows == 2

CampaignNames == {"A", "B"}

\* rows around the default limits: half of no_conversion_spend is 50, and
\* 100 / 50 is roas_min
CampaignRows ==
    {r \in [campaign_name : CampaignNames, impressions : {100}, clicks : {10},
            spend : {0, 25, 50, 60}, conversions : {0, 1},
            conversion_values : {0, 100, 119}] :
        r.conversion_values > 0 => r.conversions > 0}

\* account aggregates with a ROAS below and at roas_min
CampaignAccountData == {[roas |-> R(15, 10)], [roas |-> R(20, 10)]}

InitDetectAll ==
    /\ pc = "call"
    /\ op = "detect_all"
    /\ args \in [data : CampaignAccountData,
                 campaign_data : SeqsUpTo(CampaignRows, MaxCampaignRows)]
    /\ ret = None
    /\ GeneratorIdle
    /\ TablesIdle

CallDetectAll ==
    /\ pc = "call"
    /\ op = "detect_all"
    /\ ret' = detect_all(args.data, JsonRows(args.campaign_data), DefaultThresholds)
    /\ pc' = "return"
    /\ UNCHANGED <<op, args, generator, tables>>

SpecDetectAll == InitDetectAll /\ [][CallDetectAll]_vars

\* the total of field f over the rows of group g, whatever their places
GroupTotal(g, f) ==
    Total(SelectSeq(args.campaign_data, LAMBDA r : r.campaign_name = g), f)

GroupPresent(g) == \E i \in DOMAIN args.campaign_data : args.campaign_data[i].campaign_name = g

\* the anomalies of ret raised for metric m with scope g
Raised(g, m) == {i \in DOMAIN ret : ret[i].campaign = g /\ ret[i].metric = m}

\* C13: per group name the rows are summed whatever their order; a ROAS
\* anomaly is raised for a group iff conversion_value / spend (0 when spend
\* is 0) < roas_min, a no-conversion anomaly iff conversions = 0 and spend >
\* half of no_conversion_spend; group anomalies are warnings scoped by the
\* group name, while the account ROAS anomaly is critical.
C13_GroupRules ==
    Returned("detect_all") =>
        /\ \A i \in DOMAIN ret :
              \/ ret[i].campaign = "Account"
              \/ /\ GroupPresent(ret[i].campaign)
                 /\ ret[i].severity = "warning"
                 /\ ret[i].metric \in {"ROAS", "Conversions"}
        /\ \A g \in CampaignNames :
              LET spend == GroupTotal(g, "spend")
                  value == GroupTotal(g, "conversion_values")
                  conversions == GroupTotal(g, "conversions")
              IN  /\ Cardinality(Raised(g, "ROAS")) =
                       IF GroupPresent(g) /\ (spend = 0 \/ value < 2 * spend)
                       THEN 1 ELSE 0
                  /\ Cardinality(Raised(g, "Conversions")) =
                       IF GroupPresent(g) /\ conversions = 0 /\ spend > 50
                       THEN 1 ELSE 0
        /\ \A i \in Raised("Account", "ROAS") : ret[i].severity = "critical"
        /\ Raised("Account", "ROAS") # {} <=> RLt(args.data.roas, R(2, 1))

\* two rows of one group, neither above half of no_conversion_spend alone,
\* whose total is; the account ROAS anomaly is raised too
C13_Witness ==
    /\ Returned("detect_all")
    /\ Len(args.campaign_data) = 2
    /\ args.campaign_data[1].campaign_name = "A"
    /\ args.campaign_data[2].campaign_name = "A"
    /\ args.campaign_data[1].spend = 50
    /\ args.campaign_data[2].spend = 25
    /\ Raised("A", "Conversions") # {}
    /\ Raised("A", "ROAS") # {}
    /\ Raised("Account", "ROAS") # {}

(***************************************************************************)
(* Both aggregations on at most MaxRawItems rows as the response carries   *)
(* them                                                                    *)
(***************************************************************************)
MaxRawItems == 2

\* what an integer field and a decimal field of a raw row can hold
IntFieldChoices ==
    {JsonNumber(5), JsonText("empty", 0), JsonText("integer", 5),
     JsonText("decimal", 5), JsonText("other", 0)}

FloatFieldChoices ==
    {JsonNumber(5), JsonNull, JsonText("decimal", 5), JsonText("other", 0)}

\* rows with the impressions field absent or varied and the spend field
\* varied; the other fields are numbers
RawItems ==
    LET rest == [campaign_name |-> "A", date_start |-> 1, clicks |-> JsonNumber(1),
                 conversions |-> JsonNumber(1), conversion_values |-> JsonNumber(1)]
    IN  {rest @@ [spend |-> s] : s \in FloatFieldChoices}
        \cup {rest @@ [spend |-> s, impressions |-> i] :
                 s \in FloatFieldChoices, i \in IntFieldChoices}

InitParse ==
    /\ pc = "call"
    /\ op \in {"aggregate_metrics", "aggregate_by_campaign"}
    /\ args \in [data : SeqsUpTo(RawItems, MaxRawItems)]
    /\ ret = None
    /\ GeneratorIdle
    /\ TablesIdle

CallAggregateRaw ==
    /\ pc = "call"
    /\ op = "aggregate_metrics"
    /\ ret' = aggregate_metrics(args.data)
    /\ pc' = "return"
    /\ UNCHANGED <<op, args, generator, tables>>

CallAggregateByCampaign ==
    /\ pc = "call"
    /\ op = "aggregate_by_campaign"
    /\ ret' = aggregate_by_campaign_call(args.data)
    /\ pc' = "return"
    /\ UNCHANGED <<op, args, generator, tables>>

SpecParse == InitParse /\ [][CallAggregateRaw \/ CallAggregateByCampaign]_vars

\* the number the statement counts for a field: its value when it is a
\* number or the text of one that fits the field, 0 otherwise
ClaimedValue(item, f) ==
    IF f \notin DOMAIN item THEN 0
    ELSE LET x == item[f]
         IN  IF x.kind = "number" THEN x.v
             ELSE IF x.kind = "text" /\ x.form = "integer" THEN x.v
             ELSE IF x.kind = "text" /\ x.form = "decimal" /\ f \notin IntFields THEN x.v
             ELSE 0

RECURSIVE ClaimedSum(_, _)
ClaimedSum(rows, f) ==
    IF rows = <<>> THEN 0 ELSE ClaimedValue(Head(rows), f) + ClaimedSum(Tail(rows), f)

\* C14: a missing or unparseable numeric field of a raw row counts as 0 and
\* both aggregations return, without raising, the totals of the remaining
\* fields and rows.
C14_UnparseableCountsAsZero ==
    (pc = "return" /\ op \in {"aggregate_metrics", "aggregate_by_campaign"}
       /\ args.data # <<>>) =>
        /\ ret.raises = "none"
        /\ LET totals == IF op = "aggregate_metrics"
                         THEN [f \in NumericFields |-> ret.value[f].n]
                         ELSE Lookup(ret.value, "A")
           IN  \A f \in NumericFields : totals[f] = ClaimedSum(args.data, f)

(***************************************************************************)
(* compare_periods on values around the flat boundary                      *)
(***************************************************************************)
\* against 100: changes of -6, -5, 0, 5 and 6 percent; against 25000:
\* changes of -5.004 and 5.004 percent, reported as -5.0 and 5.0
BoundaryCurrent ==
    {FromInt(n) : n \in {0, 94, 95, 100, 105, 106, 23749, 26251}}

BoundaryPrevious == {FromInt(n) : n \in {0, 100, 25000}}

InitBoundary ==
    /\ pc = "call"
    /\ op = "compare_periods"
    /\ args \in [current_data : SingleMetricDicts(CompareMetrics, BoundaryCurrent),
                 previous_data : SingleMetricDicts(CompareMetrics, BoundaryPrevious)]
    /\ ret = None
    /\ GeneratorIdle
    /\ TablesIdle

SpecBoundary == InitBoundary /\ [][CallCompare]_vars

\* C15: the trend symbol is flat exactly when the absolute value of the
\* reported percent change is at most 5, up when it is above 5 and down when
\* it is below -5.  change_percent counts hundredths of a percent.
C15_TrendOfReportedChange ==
    Returned("compare_periods") =>
        \A m \in CompareMetrics :
            LET r == ret[m].change_percent
            IN  /\ ret[m].trend = "flat" <=> (-500 <= r /\ r <= 500)
                /\ ret[m].trend = "up" <=> r > 500
                /\ ret[m].trend = "down" <=> r < -500

(***************************************************************************)
(* detect_all followed by format_anomalies                                 *)
(***************************************************************************)
FormatAccountData ==
    [roas : Units({10, 25}), cpc : Units({15, 30}), spend : Units({1500}),
     conversions : Units({0, 10}), frequency : Units({30, 45})]

FormatRows == {r \in CampaignRows : r.spend = 60}

InitFormat ==
    /\ pc = "call"
    /\ op = "detect_all"
    /\ args \in [data : FormatAccountData,
                 campaign_data : SeqsUpTo(FormatRows, MaxCampaignRows)]
    /\ ret = None
    /\ GeneratorIdle
    /\ TablesIdle

\* the caller formats the list detect_all returned
CallFormat ==
    /\ pc = "return"
    /\ op = "detect_all"
    /\ ret' = [list |-> ret, formatted |-> format_anomalies(ret)]
    /\ pc' = "formatted"
    /\ UNCHANGED <<op, args, generator, tables>>

SpecFormat == InitFormat /\ [][CallDetectAll \/ CallFormat]_vars

PlaceIn(seq, x) == CHOOSE i \in DOMAIN seq : seq[i] = x

\* C16: the displayed anomalies are the detected ones, none lost or
\* duplicated, every critical one before every warning one, and two of equal
\* severity in the order of their detection (the account rules first, then
\* the groups).
C16_StableSeverityOrder ==
    pc = "formatted" =>
        LET detected == ret.list
            shown == ret.formatted.lines
        IN  /\ Len(shown) = Len(detected)
            /\ Elems(shown) = Elems(detected)
            /\ \A i \in DOMAIN detected, j \in DOMAIN detected :
                  i # j => detected[i] # detected[j]
            /\ \A i \in DOMAIN detected, j \in DOMAIN detected :
                  (i < j /\ detected[j].campaign = "Account")
                  => detected[i].campaign = "Account"
            /\ \A i \in DOMAIN shown, j \in DOMAIN shown :
                  i < j =>
                    \/ (shown[i].severity = "critical" /\ shown[j].severity = "warning")
                    \/ /\ shown[i].severity = shown[j].severity
                       /\ PlaceIn(detected, shown[i]) < PlaceIn(detected, shown[j])

\* the account rules raise critical, warning, critical, warning and two
\* groups raise warnings: the second critical anomaly moves before the first
\* warning, and the warnings keep their order
C16_Witness ==
    /\ pc = "formatted"
    /\ Len(ret.list) >= 6
    /\ ret.list[2].severity = "warning"
    /\ ret.list[3].severity = "critical"
    /\ ret.formatted.lines[2] = ret.list[3]
    /\ ret.formatted.lines[3] = ret.list[2]
    /\ ret.formatted.lines[4] = ret.list[4]
    /\ ret.formatted.lines[5].campaign # "Account"
    /\ ret.formatted.lines[5].campaign # ret.formatted.lines[Len(ret.list)].campaign

(***************************************************************************)
(* Benchmark tables: at most MaxManagers BenchmarkManager objects are      *)
(* constructed, with or without an override, and then used                 *)
(***************************************************************************)
MaxManagers == 2

\* override definitions: a well-formed one, one with industry_min above
\* industry_max, one with excellent below the industry range
TableDefinitions ==
    { MetricBenchmark(R(10, 10), R(20, 10), R(30, 10), R(5, 10), TRUE),
      MetricBenchmark(R(20, 10), R(10, 10), R(30, 10), R(5, 10), TRUE),
      MetricBenchmark(R(10, 10), R(20, 10), R(5, 10), R(15, 10), TRUE) }

TableOverrides ==
    {<<>>} \cup {<<Entry(m, b)>> : m \in {"ROAS", "CPC", "Unregistered"},
                                   b \in TableDefinitions}

InitTables ==
    /\ pc = "ready"
    /\ op = ""
    /\ args = None
    /\ ret = None
    /\ GeneratorIdle
    /\ TablesIdle

Construct ==
    /\ Len(managers) < MaxManagers
    /\ \E custom \in TableOverrides :
          LET made == construct_manager(class_benchmarks, custom)
          IN  /\ class_benchmarks' = made.class
              /\ managers' = Append(managers, made.self)
              /\ args' = [custom_benchmarks |-> custom]
    /\ op' = "BenchmarkManager"
    /\ ret' = None
    /\ pc' = "return"
    /\ UNCHANGED <<generator, store, scheduler>>

Evaluate ==
    /\ \E m \in DOMAIN managers, metric \in {"ROAS", "CPC", "Unregistered"},
          value \in {Zero, R(3, 1)} :
          /\ ret' = evaluate(managers[m], metric, value)
          /\ args' = [manager |-> m, metric |-> metric, value |-> value]
    /\ op' = "evaluate"
    /\ pc' = "return"
    /\ UNCHANGED <<generator, tables>>

EvaluateAll ==
    /\ \E m \in DOMAIN managers, data \in {EmptyDict, [roas |-> R(3, 1)]} :
          /\ ret' = analyze_all_metrics(managers[m], data)
          /\ args' = [manager |-> m, data |-> data]
    /\ op' = "analyze_all_metrics"
    /\ pc' = "return"
    /\ UNCHANGED <<generator, tables>>

\* get_overall_score on the evaluation just returned
OverallScore ==
    /\ pc = "return"
    /\ op = "analyze_all_metrics"
    /\ ret' = get_overall_score(ret)
    /\ args' = [evaluation |-> ret]
    /\ op' = "get_overall_score"
    /\ UNCHANGED <<pc, generator, tables>>

StatusChange ==
    /\ managers # <<>>
    /\ \E previous \in {"critical", "excellent", "unknown"},
          current \in {"critical", "excellent", "unknown"} :
          /\ ret' = get_status_change(previous, current)
          /\ args' = [previous |-> previous, current |-> current]
    /\ op' = "get_status_change"
    /\ pc' = "return"
    /\ UNCHANGED <<generator, tables>>

NextTables ==
    \/ Construct
    \/ Evaluate
    \/ EvaluateAll
    \/ OverallScore
    \/ StatusChange

SpecTables == InitTables /\ [][NextTables]_vars

\* industry_min < industry_max, and excellent on the favourable side of the
\* range
WellFormed(b) ==
    /\ RLt(b.industry_min, b.industry_max)
    /\ IF b.higher_better THEN RGe(b.excellent, b.industry_max)
       ELSE RLe(b.excellent, b.industry_min)

\* C17: every definition of every table in effect, built-in or installed by
\* an override, has industry_min < industry_max and its excellent threshold
\* on the favourable side of the industry range.
C17_DefinitionsWellFormed ==
    \A m \in DOMAIN managers :
        \A i \in DOMAIN managers[m] : WellFormed(managers[m][i].value)

\* C18: the built-in table never changes; no evaluate, evaluate-all, overall
\* score or status-change call changes any table; constructing a manager,
\* with or without an override, adds that manager's table and leaves the
\* tables of the managers constructed before as they were.
C18_TablesReadOnly ==
    /\ [](class_benchmarks = BENCHMARKS)
    /\ [][/\ class_benchmarks' = class_benchmarks
          /\ \A m \in DOMAIN managers :
                m \in DOMAIN managers' /\ managers'[m] = managers[m]
          /\ op' # "BenchmarkManager" => managers' = managers]_vars

\* a manager constructed with an override of ROAS and one constructed after
\* it without, both evaluated: the second holds the built-in definitions
C18_Witness ==
    /\ pc = "return"
    /\ op = "evaluate"
    /\ Len(managers) = 2
    /\ Lookup(managers[1], "ROAS") # Lookup(BENCHMARKS, "ROAS")
    /\ managers[2] = BENCHMARKS
    /\ class_benchmarks = BENCHMARKS
    /\ args.manager = 2


(***************************************************************************)
(* The cache around the fetch, on a run of either entry point              *)
(***************************************************************************)
Positions(name) == {i \in DOMAIN calls : calls[i].op = name}

CacheReads == Positions("cache_read")

CacheWrites == Positions("cache_write")

Fetches == Positions("fetch")

CompletedFetchesBefore(w) == {f \in Fetches : f < w /\ calls[f].state = "ok"}

\* C19: with caching enabled the cache is read, under the key derived from
\* the current date, before any fetch is issued; a fetch is issued only when
\* caching is disabled or the read gave no usable entry; the cache is
\* written, under the same key, only after the fetch of every period and the
\* aggregation completed, and holds the aggregates; a cache hit causes
\* neither a fetch nor a cache write.
C19_CacheAroundFetch ==
    /\ \A r \in CacheReads : \A f \in Fetches : r < f
    /\ args.use_cache /\ pc \notin {"validate", "rejected", "fetch_data"}
           => CacheReads # {}
    /\ Fetches # {}
           => \/ ~args.use_cache /\ CacheReads = {}
              \/ \E r \in CacheReads : calls[r].state = "miss"
    /\ \A k \in CacheReads \cup CacheWrites : calls[k].key = cache_key(args.today)
    /\ \A w \in CacheWrites :
           /\ Cardinality(CompletedFetchesBefore(w)) = Len(Periods)
           /\ Len(aggregated_data) = Len(Periods)
           /\ cache_file # None
           /\ cache_file.value = JsonRoundTrip(aggregated_data)
    /\ \A r \in CacheReads :
           calls[r].state = "hit" => Fetches = {} /\ CacheWrites = {}

\* a finished run that missed the cache, fetched and wrote the cache, on the
\* second day
C19_Witness ==
    /\ Finished
    /\ args.use_cache
    /\ args.today = 2
    /\ \E r \in CacheReads : calls[r].state = "miss"
    /\ Fetches # {}
    /\ CacheWrites # {}

(***************************************************************************)
(* The collaborator operations of one run                                  *)
(***************************************************************************)
Outstanding == {i \in DOMAIN calls : calls[i].state = "outstanding"}

CallNames == {"cache_read", "fetch", "cache_write", "save_report", "notify"}

RECURSIVE SumOf(_)
SumOf(values) == IF values = <<>> THEN 0 ELSE Head(values) + SumOf(Tail(values))

\* statistics.mean
mean(values) == R(SumOf(values), Len(values))

RECURSIVE SquaredDeviations(_, _)
SquaredDeviations(values, avg) ==
    IF values = <<>> THEN Zero
    ELSE LET d == RSub(FromInt(Head(values)), avg)
         IN  RAdd(RMul(d, d), SquaredDeviations(Tail(values), avg))

\* statistics.stdev, squared: the sample variance, for two values or more
variance(values) ==
    RDiv(SquaredDeviations(values, mean(values)), FromInt(Len(values) - 1))

\* abs((value - avg) / std_dev) if std_dev > 0 else 0, squared
ZScoreSquared(value, avg, var) ==
    IF RGt(var, Zero)
    THEN LET d == RSub(FromInt(value), avg) IN RDiv(RMul(d, d), var)
    ELSE Zero

\* z_score >= threshold, a z-score being 0 or more
ReachesThreshold(z_squared, threshold) ==
    \/ RLe(threshold, Zero)
    \/ RGe(z_squared, RMul(threshold, threshold))

\* z_score > threshold, a z-score being 0 or more
ExceedsThreshold(z_squared, threshold) ==
    \/ RLt(threshold, Zero)
    \/ RGt(z_squared, RMul(threshold, threshold))

RECURSIVE StatisticalAnomalies(_, _, _, _, _)
StatisticalAnomalies(values, i, avg, var, threshold) ==
    IF i > Len(values) THEN <<>>
    ELSE LET z_squared == ZScoreSquared(values[i], avg, var)
             rest == StatisticalAnomalies(values, i + 1, avg, var, threshold)
         IN  IF ExceedsThreshold(z_squared, threshold)
             THEN <<[index |-> i - 1, value |-> values[i],
                     z_score_squared |-> z_squared]>> \o rest
             ELSE rest

detect_statistical_anomaly(values, threshold) ==
    IF Len(values) < 3 THEN <<>>
    ELSE StatisticalAnomalies(values, 1, mean(values), variance(values), threshold)

MaxValues == 4

SampleValues == {0, 1, 5}

ZThresholds == {R(-1, 1), Zero, FromInt(1), R(3, 2), FromInt(2)}

InitStatistical ==
    /\ pc = "call"
    /\ op = "detect_statistical_anomaly"
    /\ args \in [values : SeqsUpTo(SampleValues, MaxValues), threshold : ZThresholds]
    /\ ret = None
    /\ GeneratorIdle
    /\ TablesIdle

CallStatistical ==
    /\ pc = "call"
    /\ pc' = "return"
    /\ ret' = detect_statistical_anomaly(args.values, args.threshold)
    /\ UNCHANGED <<op, args, generator, tables>>

SpecStatistical == InitStatistical /\ [][CallStatistical]_vars

Count == Len(args.values)

SumOfSquares == SumOf([i \in DOMAIN args.values |-> args.values[i] * args.values[i]])

\* n * (n - 1) times the sample variance
ScaledVariance == Count * SumOfSquares - SumOf(args.values) * SumOf(args.values)

AllEqual == \A i \in DOMAIN args.values : args.values[i] = args.values[1]

\* |value - mean| / sampleStdDev, squared, for a positive deviation
ClaimedZSquared(i) ==
    LET d == Count * args.values[i] - SumOf(args.values)
    IN  R(d * d * (Count - 1), Count * ScaledVariance)

\* zScore > threshold for a positive deviation, in whole numbers
Flagged(i) ==
    LET d == Count * args.values[i] - SumOf(args.values)
        t == args.threshold
    IN  \/ t.n < 0
        \/ d * d * (Count - 1) * t.d * t.d > t.n * t.n * Count * ScaledVariance

FlaggedIndices == {i \in DOMAIN args.values : Flagged(i)}

InIndexOrder == \A k \in 1..(Len(ret) - 1) : ret[k].index < ret[k + 1].index

ExactlyTheFlagged ==
    /\ InIndexOrder
    /\ {ret[k].index + 1 : k \in DOMAIN ret} = FlaggedIndices
    /\ \A k \in DOMAIN ret :
           /\ ret[k].value = args.values[ret[k].index + 1]
           /\ ret[k].z_score_squared = ClaimedZSquared(ret[k].index + 1)

\* every value, with z-score 0
EveryValueAtZero ==
    ret = [i \in DOMAIN args.values |->
             [index |-> i - 1, value |-> args.values[i], z_score_squared |-> Zero]]

\* C21 as stated: the result is empty for fewer than 3 values and for equal
\* values; otherwise it is, in index order, exactly the (index, value,
\* zScore) triples with zScore = |value - mean| / sampleStdDev > threshold.
C21_EmptyOrOutliers ==
    Returned("detect_statistical_anomaly") =>
        IF Count < 3 \/ AllEqual THEN ret = <<>> ELSE ExactlyTheFlagged

\* C21: the result is empty for fewer than 3 values; for 3 or more equal
\* values the z-score of each is 0, so the result is empty when the
\* threshold is 0 or more and holds every value when it is negative;
\* otherwise it is, in index order, exactly the (index, value, zScore)
\* triples with zScore = |value - mean| / sampleStdDev > threshold.
C21_EmptyOrOutliersByThreshold ==
    Returned("detect_statistical_anomaly") =>
        IF Count < 3 THEN ret = <<>>
        ELSE IF AllEqual
        THEN IF args.threshold.n < 0 THEN EveryValueAtZero ELSE ret = <<>>
        ELSE ExactlyTheFlagged

\* one of four values lies exactly 1.5 deviations from the mean, others less:
\* nothing is flagged at threshold 1.5, one value at threshold 1
C21_Witness ==
    /\ Returned("detect_statistical_anomaly")
    /\ args.values = <<0, 5, 0, 0>>
    /\ args.threshold = FromInt(1)
    /\ Len(ret) = 1
    /\ ret[1].index = 1


(***************************************************************************)
(* TrendAnalyzer.detect_weekly_pattern                                     *)
(* A date_start text is modelled by its form: "ymd" for digits in the      *)
(* shape year-month-day, "text" for any other non-empty text, "empty".     *)
(***************************************************************************)
DateText(y, m, d) == [form |-> "ymd", y |-> y, m |-> m, d |-> d]

OtherText == [form |-> "text", y |-> 0, m |-> 0, d |-> 0]

EmptyText == [form |-> "empty", y |-> 0, m |-> 0, d |-> 0]

IsLeap(y) == y % 4 = 0 /\ (y % 100 # 0 \/ y % 400 = 0)

DaysInMonth(y, m) ==
    IF m = 2 THEN (IF IsLeap(y) THEN 29 ELSE 28)
    ELSE IF m \in {4, 6, 9, 11} THEN 30 ELSE 31

\* datetime.strptime(date_str, '%Y-%m-%d') raises ValueError
StrptimeRaises(date_str) ==
    \/ date_str.form # "ymd"
    \/ date_str.y \notin 1..9999
    \/ date_str.m \notin 1..12
    \/ date_str.d \notin 1..DaysInMonth(date_str.y, date_str.m)

RECURSIVE DaysBeforeMonth(_, _)
DaysBeforeMonth(y, m) ==
    IF m = 1 THEN 0 ELSE DaysBeforeMonth(y, m - 1) + DaysInMonth(y, m - 1)

\* date.toordinal: day 1 is 0001-01-01
ToOrdinal(y, m, d) ==
    LET before == y - 1
    IN  before * 365 + before \div 4 - before \div 100 + before \div 400
        + DaysBeforeMonth(y, m) + d

\* datetime.weekday: 0 is Monday, 6 is Sunday
Weekday(dt) == (ToOrdinal(dt.y, dt.m, dt.d) + 6) % 7

\* the records the loop keeps: a date_start that is present, not empty and
\* parseable
Kept(item) ==
    /\ "date_start" \in DOMAIN item
    /\ item.date_start.form # "empty"
    /\ ~StrptimeRaises(item.date_start)

\* a bucket that takes the records of every day
OnAnyDay(item) == TRUE

OnWeekend(item) == Weekday(item.date_start) >= 5

OnWeekday(item) == Weekday(item.date_start) < 5

RECURSIVE WeekdayValues(_, _)
WeekdayValues(daily_data, metric) ==
    IF daily_data = <<>> THEN <<>>
    ELSE LET item == Head(daily_data)
             rest == WeekdayValues(Tail(daily_data), metric)
         IN  IF Kept(item) /\ OnWeekday(item)
             THEN <<GetOr(item, metric, 0)>> \o rest ELSE rest

RECURSIVE WeekendValues(_, _)
WeekendValues(daily_data, metric) ==
    IF daily_data = <<>> THEN <<>>
    ELSE LET item == Head(daily_data)
             rest == WeekendValues(Tail(daily_data), metric)
         IN  IF Kept(item) /\ OnWeekend(item)
             THEN <<GetOr(item, metric, 0)>> \o rest ELSE rest

MeanOrZero(values) == IF values # <<>> THEN mean(values) ELSE Zero

\* pattern: the three labels of the source, in English
PatternOf(ratio) ==
    IF RLt(ratio, R(9, 10)) THEN "weekend stronger"
    ELSE IF RGt(ratio, R(11, 10)) THEN "weekday stronger"
    ELSE "no significant difference"

\* amounts rounded to 2 places are counts of hundredths
detect_weekly_pattern(daily_data, metric) ==
    LET weekday_avg == MeanOrZero(WeekdayValues(daily_data, metric))
        weekend_avg == MeanOrZero(WeekendValues(daily_data, metric))
        ratio == IF RGt(weekend_avg, Zero) THEN RDiv(weekday_avg, weekend_avg)
                 ELSE Zero
    IN  [weekday_avg |-> Round2(weekday_avg),
         weekend_avg |-> Round2(weekend_avg),
         ratio |-> Round2(ratio),
         pattern |-> PatternOf(ratio)]

MaxDailyRows == 2

\* Monday, Friday, Saturday and Sunday of one week, a leap day (a Thursday),
\* a day that does not exist, a text that is no date, the empty text
SampleDates ==
    {DateText(2024, 1, 1), DateText(2024, 1, 5), DateText(2024, 1, 6),
     DateText(2024, 1, 7), DateText(2024, 2, 29), DateText(2023, 2, 29),
     OtherText, EmptyText}

SampleMetricValues == {0, 9, 10, 11}

DailyRows ==
    [date_start : SampleDates, roas : SampleMetricValues]
    \cup [date_start : SampleDates]
    \cup [roas : SampleMetricValues]

InitWeekly ==
    /\ pc = "call"
    /\ op = "detect_weekly_pattern"
    /\ args \in [daily_data : SeqsUpTo(DailyRows, MaxDailyRows), metric : {"roas"}]
    /\ ret = None
    /\ GeneratorIdle
    /\ TablesIdle

CallWeekly ==
    /\ pc = "call"
    /\ pc' = "return"
    /\ ret' = detect_weekly_pattern(args.daily_data, args.metric)
    /\ UNCHANGED <<op, args, generator, tables>>

SpecWeekly == InitWeekly /\ [][CallWeekly]_vars

\* the calendar: the day of the week of each existing sample date
DayName(date) ==
    IF date = DateText(2024, 1, 1) THEN "Monday"
    ELSE IF date = DateText(2024, 1, 5) THEN "Friday"
    ELSE IF date = DateText(2024, 1, 6) THEN "Saturday"
    ELSE IF date = DateText(2024, 1, 7) THEN "Sunday"
    ELSE IF date = DateText(2024, 2, 29) THEN "Thursday"
    ELSE "none"

DayOfRecord(i) ==
    IF "date_start" \in DOMAIN args.daily_data[i]
    THEN DayName(args.daily_data[i].date_start) ELSE "none"

ValueOfRecord(i) ==
    IF args.metric \in DOMAIN args.daily_data[i]
    THEN args.daily_data[i][args.metric] ELSE 0

WeekdayRecords ==
    {i \in DOMAIN args.daily_data :
        DayOfRecord(i) \in {"Monday", "Tuesday", "Wednesday", "Thursday", "Friday"}}

WeekendRecords ==
    {i \in DOMAIN args.daily_data : DayOfRecord(i) \in {"Saturday", "Sunday"}}

RECURSIVE SumOver(_)
SumOver(records) ==
    IF records = {} THEN 0
    ELSE LET i == CHOOSE i \in records : TRUE
         IN  ValueOfRecord(i) + SumOver(records \ {i})

\* the ratio weekdayAverage / weekendAverage as numerator and denominator,
\* for a positive weekend total
RatioNumerator == SumOver(WeekdayRecords) * Cardinality(WeekendRecords)

RatioDenominator == SumOver(WeekendRecords) * Cardinality(WeekdayRecords)

ClaimedPattern ==
    IF SumOver(WeekendRecords) = 0 \/ WeekdayRecords = {} THEN "weekend stronger"
    ELSE IF 10 * RatioNumerator < 9 * RatioDenominator THEN "weekend stronger"
    ELSE IF 10 * RatioNumerator > 11 * RatioDenominator THEN "weekday stronger"
    ELSE "no significant difference"

ClaimedAverage(records) ==
    IF records = {} THEN 0
    ELSE RoundHalfEven(100 * SumOver(records), Cardinality(records))

ClaimedRatio ==
    IF SumOver(WeekendRecords) = 0 \/ WeekdayRecords = {} THEN 0
    ELSE RoundHalfEven(100 * RatioNumerator, RatioDenominator)

\* C22: weekly_pattern averages the Monday-to-Friday records and the
\* Saturday-or-Sunday records, skipping records whose date is missing or
\* unparseable; the ratio is weekdayAverage / weekendAverage, 0 when the
\* weekend average is 0; a ratio below 0.9 is labelled weekend stronger,
\* above 1.1 weekday stronger, otherwise no significant difference.
C22_WeeklyPattern ==
    Returned("detect_weekly_pattern") =>
        /\ ret.weekday_avg = ClaimedAverage(WeekdayRecords)
        /\ ret.weekend_avg = ClaimedAverage(WeekendRecords)
        /\ ret.ratio = ClaimedRatio
        /\ ret.pattern = ClaimedPattern

\* a weekday record and a weekend record at ratio exactly 0.9, labelled as
\* no significant difference
C22_Witness ==
    /\ Returned("detect_weekly_pattern")
    /\ Len(args.daily_data) = 2
    /\ WeekdayRecords # {}
    /\ WeekendRecords # {}
    /\ ret.ratio = 90
    /\ ret.pattern = "no significant difference"


(***************************************************************************)
(* A run served from the cache against the run that wrote the entry        *)
(***************************************************************************)
ServedFromCache == \E r \in CacheReads : calls[r].state = "hit"

\* the aggregate set of the run that wrote the entry: the cached aggregates
\* under the period lengths 1, 3, 7 they were computed for
FetchedSet ==
    [i \in DOMAIN cache_file.value |->
       Entry(IntKey(cache_file.value[i].key.v), cache_file.value[i].value)]

\* C23: the analysis of a run served from the cache - comparison of the
\* current and previous period, multi-period sequences, benchmark
\* evaluation, anomalies - equals the analysis computed from the set the
\* writing run fetched.
C23_CacheHitSameAnalysis ==
    Finished /\ ServedFromCache =>
        /\ analysis.trend.comparison =
               compare_periods(GetByInt(FetchedSet, 1), GetByInt(FetchedSet, 3))
        /\ analysis.trend.multi_period.metrics_trend =
               analyze_multi_period(FetchedSet).metrics_trend
        /\ analysis.benchmark.evaluation =
               analyze_all_metrics(managers[1], GetByInt(FetchedSet, 1))
        /\ analysis.anomalies.list =
               detect_all(GetByInt(FetchedSet, 1), <<>>, DefaultThresholds)


(***************************************************************************)
(* The insight requests of one fetch                                       *)
(***************************************************************************)
\* a row's date_start counts the days from the row's date to today
DaysBeforeToday(row) == row.date_start

\* C24: the request issued for a period depends on its length N, and the
\* records stored for N are those of the date range from today minus N days
\* to today.
C24_RequestFollowsPeriod ==
    /\ \A i \in Fetches : \A j \in Fetches :
           i # j => calls[i].params # calls[j].params
    /\ \A i \in DOMAIN multi_period_data :
           \A k \in DOMAIN multi_period_data[i].value :
               DaysBeforeToday(multi_period_data[i].value[k])
                   <= multi_period_data[i].key.v


(***************************************************************************)
(* DataCache used on its own: set, get, delete, clear and the passing of   *)
(* time in any order.  A key is the sequence of its characters; calls is   *)
(* the log of the operations.                                              *)
(***************************************************************************)
\* _get_cache_key: the file name of a key, before the .json suffix
get_cache_key(key) ==
    [i \in DOMAIN key |-> IF key[i] = "/" THEN "_"
                          ELSE IF key[i] = ":" THEN "-" ELSE key[i]]

Exists(dir, name) == name \in DOMAIN dir

\* the directory with the file written, and with the file unlinked
WithFile(dir, name, file) ==
    [n \in DOMAIN dir \cup {name} |-> IF n = name THEN file ELSE dir[n]]

WithoutFile(dir, name) == [n \in DOMAIN dir \ {name} |-> dir[n]]

\* DataCache.get on the directory: [value, dir], and whether the value is
\* that of a file
get(dir, key, expire_seconds) ==
    LET name == get_cache_key(key)
    IN  IF ~Exists(dir, name) THEN [found |-> FALSE, value |-> None, dir |-> dir]
        ELSE LET read == cache_get(dir[name], expire_seconds)
             IN  IF read.file = None
                 THEN [found |-> FALSE, value |-> None, dir |-> WithoutFile(dir, name)]
                 ELSE [found |-> TRUE, value |-> read.value, dir |-> dir]

\* DataCache.set on the directory
set(dir, key, value) == WithFile(dir, get_cache_key(key), cache_set(value))

\* DataCache.delete on the directory: [value, dir]
delete(dir, key) ==
    LET name == get_cache_key(key)
    IN  IF Exists(dir, name) THEN [value |-> TRUE, dir |-> WithoutFile(dir, name)]
        ELSE [value |-> FALSE, dir |-> dir]

\* DataCache.clear on the directory
clear(dir) == <<>>

MaxCacheOps == 3

CacheKeys == { <<"a", "/", "b">>, <<"a", "_", "b">>, <<"k">> }

\* an aggregate set keyed by an int, and one keyed by a str
CacheValues == { <<Entry(IntKey(1), 10)>>, <<Entry(StrKey(1), 20)>> }

CacheLifetimes == {0, 1}

Logged(name, key, value) == [op |-> name, key |-> key, value |-> value]

InitCache ==
    /\ pc = "ready"
    /\ op = ""
    /\ args = None
    /\ ret = None
    /\ GeneratorIdle
    /\ class_benchmarks = BENCHMARKS
    /\ managers = <<>>
    /\ cache_dir = <<>>
    /\ self_expire_seconds \in CacheLifetimes
    /\ scheduler = [state |-> "off", last |-> "none"]

CacheFrame ==
    UNCHANGED <<cache_file, multi_period_data, aggregated_data, analysis,
                class_benchmarks, managers, self_expire_seconds, scheduler>>

CacheSet ==
    /\ Len(calls) < MaxCacheOps
    /\ \E key \in CacheKeys, value \in CacheValues :
          /\ cache_dir' = set(cache_dir, key, value)
          /\ args' = [key |-> key, value |-> value]
          /\ calls' = Append(calls, Logged("set", key, value))
    /\ op' = "set"
    /\ ret' = None
    /\ pc' = "return"
    /\ CacheFrame

CacheGet ==
    /\ Len(calls) < MaxCacheOps
    /\ \E key \in CacheKeys :
          LET got == get(cache_dir, key, self_expire_seconds)
          IN  /\ cache_dir' = got.dir
              /\ ret' = [found |-> got.found, value |-> got.value]
              /\ args' = [key |-> key]
              /\ calls' = Append(calls, Logged("get", key, None))
    /\ op' = "get"
    /\ pc' = "return"
    /\ CacheFrame

CacheDelete ==
    /\ Len(calls) < MaxCacheOps
    /\ \E key \in CacheKeys :
          LET deleted == delete(cache_dir, key)
          IN  /\ cache_dir' = deleted.dir
              /\ ret' = deleted.value
              /\ args' = [key |-> key]
              /\ calls' = Append(calls, Logged("delete", key, None))
    /\ op' = "delete"
    /\ pc' = "return"
    /\ CacheFrame

CacheClear ==
    /\ Len(calls) < MaxCacheOps
    /\ cache_dir' = clear(cache_dir)
    /\ calls' = Append(calls, Logged("clear", <<>>, None))
    /\ op' = "clear"
    /\ args' = None
    /\ ret' = None
    /\ pc' = "return"
    /\ CacheFrame

\* a second passes: time.time() is one more, every file one second older
SecondPasses ==
    /\ Len(calls) < MaxCacheOps
    /\ cache_dir' = [n \in DOMAIN cache_dir |->
                       [cache_dir[n] EXCEPT !.age = @ + 1]]
    /\ calls' = Append(calls, Logged("tick", <<>>, None))
    /\ UNCHANGED <<pc, op, args, ret>>
    /\ CacheFrame

NextCache ==
    \/ CacheSet
    \/ CacheGet
    \/ CacheDelete
    \/ CacheClear
    \/ SecondPasses

SpecCache == InitCache /\ [][NextCache]_vars

\* the entry of a key after a log of operations, as the operations on that
\* key determine it: the value last stored and the seconds since, or None
RECURSIVE EntryAfter(_, _)
EntryAfter(log, key) ==
    IF log = <<>> THEN None
    ELSE LET e == log[Len(log)]
             before == EntryAfter(SubSeq(log, 1, Len(log) - 1), key)
         IN  IF e.op = "clear" THEN None
             ELSE IF e.op = "tick"
             THEN (IF before = None THEN None
                   ELSE [before EXCEPT !.seconds = @ + 1])
             ELSE IF e.key # key THEN before
             ELSE IF e.op = "set" THEN [value |-> e.value, seconds |-> 0]
             ELSE IF e.op = "delete" THEN None
             ELSE IF before # None /\ before.seconds > self_expire_seconds
             THEN None
             ELSE before

\* C25: get returns the value most recently stored by set under the same
\* key while no more than expire_seconds have passed since that set and the
\* entry was not deleted or cleared; it returns None when there is no entry
\* or the entry is older, and an expired entry read once stays gone until
\* the next set.
C25_GetReturnsLastSet ==
    pc = "return" /\ op = "get" /\ calls # <<>> /\ calls[Len(calls)].op = "get" =>
        LET before == EntryAfter(SubSeq(calls, 1, Len(calls) - 1), args.key)
        IN  IF before = None \/ before.seconds > self_expire_seconds
            THEN ~ret.found
            ELSE ret.found /\ ret.value = before.value


(***************************************************************************)
(* The notification of a run of generate_and_send_report                   *)
(***************************************************************************)
Notifications == Positions("notify")

SettingsComplete == \A i \in 1..Len(RequiredSettings) : args.settings[RequiredSettings[i]] # ""

\* C26: a notification is pushed at most once per run and only after the
\* report of the run was generated and saved to file; none is pushed when
\* send_notification is false (options --no-notify or --test); when the
\* settings validation fails the run returns no report and performs no
\* cache access, fetch, file write or notification.
C26_NotifyOnceAfterSave ==
    /\ Cardinality(Notifications) <= 1
    /\ \A n \in Notifications :
           /\ ret # None
           /\ ret.raises = "none"
           /\ \E s \in Positions("save_report") : s < n
    /\ args.no_notify \/ args.test \/ ~args.send_notification => Notifications = {}
    /\ op = "generate_and_send_report" /\ ~SettingsComplete =>
           /\ calls = <<>>
           /\ ret = None
           /\ pc \in {"validate", "rejected"}

\* a finished run that pushed its notification after saving the report
C26_Witness ==
    /\ Finished
    /\ op = "generate_and_send_report"
    /\ \E n \in Notifications : calls[n].state \in {"ok", "failed"}
    /\ Positions("save_report") # {}


(***************************************************************************)
(* DailyReportScheduler: the loop of start waits for the report time and   *)
(* runs run_daily_report, which calls generate_and_send_report             *)
(***************************************************************************)
\* the exceptions a run raises that are subclasses of Exception
ExceptionClasses == {"RequestException", "ZeroDivisionError", "ValueError", "OSError"}

SchedulerState(state, last) == [state |-> state, last |-> last]

\* a run_daily_report whose except clause catches request failures only
AfterRunCatchingRequests(at, result) ==
    IF at = "raised"
    THEN (IF result.raises = "RequestException"
          THEN SchedulerState("waiting", "exception")
          ELSE SchedulerState("stopped", "exception"))
    ELSE IF at = "done" THEN SchedulerState("waiting", "report")
    ELSE SchedulerState("waiting", "no report")

\* run_daily_report: the outcome logged, and the loop it returns to unless
\* the exception passes the except clause
AfterRun(at, result) ==
    IF at = "raised"
    THEN (IF result.raises \in ExceptionClasses
          THEN SchedulerState("waiting", "exception")
          ELSE SchedulerState("stopped", "exception"))
    ELSE IF at = "done" THEN SchedulerState("waiting", "report")
    ELSE SchedulerState("waiting", "no report")

\* generate_and_send_report(send_notification=True), whatever the settings
ScheduledInvocations(earliest) ==
    {i \in MainInvocations(earliest) : ~i.no_notify /\ ~i.test}

InitScheduler ==
    /\ scheduler = SchedulerState("waiting", "none")
    /\ pc = "idle"
    /\ op = "start"
    /\ args = [today |-> 1]
    /\ ret = None
    /\ calls = <<>>
    /\ cache_file = None
    /\ multi_period_data = <<>>
    /\ aggregated_data = <<>>
    /\ analysis = EmptyDict
    /\ class_benchmarks = BENCHMARKS
    /\ managers = <<construct_manager(BENCHMARKS, <<>>).self>>
    /\ cache_dir = <<>>
    /\ self_expire_seconds = CacheExpireSeconds

\* schedule.run_pending at the report time
ReportTimeArrives ==
    /\ scheduler.state = "waiting"
    /\ \E invocation \in ScheduledInvocations(args.today) : StartRun(invocation)
    /\ scheduler' = [scheduler EXCEPT !.state = "running"]
    /\ UNCHANGED <<class_benchmarks, managers, store>>

RunReturns ==
    /\ scheduler.state = "running"
    /\ pc \in {"done", "raised", "rejected"}
    /\ scheduler' = AfterRun(pc, ret)
    /\ pc' = "idle"
    /\ UNCHANGED <<op, args, ret, generator, class_benchmarks, managers, store>>

NextScheduler ==
    \/ ReportTimeArrives
    \/ ValidateSettings
    \/ ReadCache
    \/ SendRequest
    \/ RequestPeriod
    \/ RequestFails
    \/ AggregateAndStore
    \/ AnalyzeTrend
    \/ AnalyzeBenchmark
    \/ DetectAnomalies
    \/ GenerateInsights
    \/ BuildReport
    \/ SaveReport
    \/ SaveReportFails
    \/ SendNotification
    \/ NotificationReturns
    \/ RunReturns

\* the loop keeps running: run_daily_report returns to it, and the report
\* time arrives every day
SchedulerFairness == WF_vars(RunReturns) /\ WF_vars(ReportTimeArrives)

SpecScheduler == InitScheduler /\ [][NextScheduler]_vars /\ SchedulerFairness

RunFailed == scheduler.state = "running" /\ pc \in {"raised", "rejected"}

RunStarted == scheduler.state = "running" /\ pc = "validate"

\* C27: a scheduled run that fails, by returning no report or by raising,
\* never ends the scheduler loop: the scheduler goes back to waiting and the
\* next scheduled run is started.
C27_FailedRunKeepsSchedule ==
    /\ [](scheduler.state # "stopped")
    /\ RunFailed ~> scheduler.state = "waiting"
    /\ RunFailed ~> RunStarted

\* a run started after a run that raised
C27_Witness == RunStarted /\ scheduler.last = "exception"


(***************************************************************************)
(* The anomalies of a generated report                                     *)
(***************************************************************************)
AnomaliesDetected == "anomalies" \in DOMAIN analysis

GroupRuleIds == {"campaign_roas_low", "campaign_spent_without_conversion"}

\* C28: the anomaly pass of the pipeline gets the current account aggregate
\* and no group records: every anomaly of a report has scope Account, there
\* are at most 4 with at most one per rule, and no group-level rule fires.
C28_AccountScopeOnly ==
    AnomaliesDetected =>
        LET list == analysis.anomalies.list
        IN  /\ Len(list) <= 4
            /\ \A i \in DOMAIN list :
                   /\ list[i].campaign = "Account"
                   /\ list[i].suggestion.id \notin GroupRuleIds
                   /\ list[i].metric \in {RuleOrder[r] : r \in DOMAIN RuleOrder}
                   /\ list[i].severity = RuleSeverity[list[i].metric]
            /\ \A i \in DOMAIN list : \A j \in DOMAIN list :
                   i # j => list[i].metric # list[j].metric

\* a finished run that fetched rows and reports an anomaly of every account
\* rule
C28_Witness ==
    /\ Finished
    /\ Fetches # {}
    /\ Len(analysis.anomalies.list) = 4


(***************************************************************************)
(* The benchmark pass and the anomaly pass of _analyze_data on one         *)
(* aggregate, with the built-in table and the default thresholds           *)
(***************************************************************************)
BuiltIn(metric) == Lookup(BENCHMARKS, metric)

\* aggregates whose roas and frequency sit on, a tenth under and a tenth over
\* every mark of the built-in definitions; a field may be missing
AnalyzedAggregates ==
    [roas : ProbeValues(BuiltIn("ROAS")),
     frequency : ProbeValues(BuiltIn("Frequency"))]
    \cup [roas : ProbeValues(BuiltIn("ROAS"))]
    \cup [frequency : ProbeValues(BuiltIn("Frequency"))]
    \cup {EmptyDict}

InitAnalyze ==
    /\ pc = "call"
    /\ op = "analyze_data"
    /\ args \in [current_data : AnalyzedAggregates]
    /\ ret = None
    /\ GeneratorIdle
    /\ TablesIdle

CallAnalyze ==
    /\ pc = "call"
    /\ op = "analyze_data"
    /\ ret' = [benchmark |-> analyze_all_metrics(BenchmarkManager(<<>>),
                                                 args.current_data),
               anomalies |-> detect_all(args.current_data, <<>>,
                                        DefaultThresholds)]
    /\ pc' = "return"
    /\ UNCHANGED <<op, args, generator, tables>>

SpecAnalyze == InitAnalyze /\ [][CallAnalyze]_vars

AccountAnomalyRaised(metric, severity) ==
    \E i \in DOMAIN ret.anomalies :
        /\ ret.anomalies[i].metric = metric
        /\ ret.anomalies[i].campaign = "Account"
        /\ ret.anomalies[i].severity = severity

BenchmarkCritical(metric) == Lookup(ret.benchmark, metric).status = "critical"
BenchmarkAlert(metric) == Lookup(ret.benchmark, metric).is_alert

\* C29: with the default thresholds and the built-in benchmark table, the
\* account-level ROAS anomaly (critical) is raised if and only if the
\* benchmark evaluation of ROAS is critical and alert-flagged, and the
\* account-level Frequency anomaly is raised if and only if the benchmark
\* evaluation of Frequency is critical
C29_AnalyzersAgree ==
    Returned("analyze_data") =>
        /\ AccountAnomalyRaised("ROAS", "critical")
             <=> (BenchmarkCritical("ROAS") /\ BenchmarkAlert("ROAS"))
        /\ (\E severity \in {"critical", "warning"} :
                AccountAnomalyRaised("Frequency", severity))
             <=> BenchmarkCritical("Frequency")

\* roas a tenth under its threshold is flagged by both analyzers while
\* frequency exactly on its threshold is flagged by neither
C29_Witness ==
    /\ Returned("analyze_data")
    /\ DOMAIN args.current_data = {"roas", "frequency"}
    /\ REq(args.current_data.roas, R(19, 10))
    /\ REq(args.current_data.frequency, R(40, 10))
    /\ AccountAnomalyRaised("ROAS", "critical")
    /\ BenchmarkCritical("ROAS")
    /\ ~BenchmarkCritical("Frequency")


(***************************************************************************)
(* The text report of a built result against the anomaly sub-result        *)
(***************************************************************************)
ReportBuilt == "value" \in DOMAIN ret

\* C30: the anomaly section of the rendered text report states that no
\* anomaly was found only when the detected anomaly list of the same report
\* is empty, and otherwise contains the formatted anomalies
C30_TextReportShowsAnomalies ==
    ReportBuilt =>
        LET section == ret.value.text_report.anomaly_section
            detected == ret.value.analysis.anomalies
        IN  /\ section.none_found => detected.list = <<>>
            /\ detected.list # <<>> => section.body = detected.formatted

=============================================================================
